---------------------------- MODULE Spec2Model ----------------------------
(***************************************************************************)
(* Grapheme-cluster segmentation and label codec of the seven Indic        *)
(* tokenizers (Hindi, Gujarati, Bengali, Gurmukhi, Tamil, Malayalam,       *)
(* Telugu).  A Python str is modelled as a tuple of Unicode code points,   *)
(* a Python tuple/list of str as a tuple of such tuples, and Python's      *)
(* 0-based indices are kept as they are in the code.                       *)
(***************************************************************************)
EXTENDS Integers, Sequences, FiniteSets, TLC

\* ------------------------------------------------------------------------
\* Bounds of the model (inputs only; the character tables are complete).
\* ------------------------------------------------------------------------
\* longest label drawn over a script's input alphabet
MaxLen == 3
\* longest run of half-character units in the half-character overflow labels
MaxRun == 4
\* the max_grps constructor argument (25 by default in the code)
max_grps == 3

\* ------------------------------------------------------------------------
\* Python str helpers
\* ------------------------------------------------------------------------
Min(a, b) == IF a < b THEN a ELSE b

\* the one-character str s[i], with Python's negative indices
At(s, i) == <<IF i < 0 THEN s[Len(s) + i + 1] ELSE s[i + 1]>>

\* s[a:b] for 0 <= a
Slice(s, a, b) == SubSeq(s, a + 1, Min(b, Len(s)))

\* running_grp += label[idx:idx+n]; idx += n  on the state st of a scan
take(label, st, n) ==
    [st EXCEPT !.idx = @ + n, !.grp = @ \o Slice(label, st.idx, st.idx + n)]

\* sub in s  (Python substring test; "" is in every str)
IsSubstr(sub, s) ==
    \E k \in 0..(Len(s) - Len(sub)) : SubSeq(s, k + 1, k + Len(sub)) = sub

\* s.replace(old, "") for a non-empty old: leftmost non-overlapping removal
RECURSIVE Remove(_, _)
Remove(s, old) ==
    IF Len(s) < Len(old) THEN s
    ELSE IF SubSeq(s, 1, Len(old)) = old
         THEN Remove(SubSeq(s, Len(old) + 1, Len(s)), old)
         ELSE <<s[1]>> \o Remove(Tail(s), old)

\* "".join(grps)
RECURSIVE Join(_)
Join(grps) == IF grps = <<>> THEN <<>> ELSE Head(grps) \o Join(Tail(grps))

\* x in lst  (list membership of a str)
InList(lst, x) == \E k \in 1..Len(lst) : lst[k] = x

\* {c: k for k, c in enumerate(classes)}: key test and lookup (a later
\* duplicate overwrites an earlier one, so the largest index wins)
InMap(classes, key) == \E k \in 1..Len(classes) : classes[k] = key
RevMap(classes, key) ==
    CHOOSE k \in 0..(Len(classes) - 1) :
        /\ classes[k + 1] = key
        /\ \A j \in (k + 1)..(Len(classes) - 1) : classes[j + 1] # key

\* the sentinel class names
BLANK == <<91, 66, 93>>
EOS == <<91, 69, 93>>
PAD == <<91, 80, 93>>
eos_id == 0
pad_id == 1
blank_id == 2

\* ------------------------------------------------------------------------
\* unicodedata.normalize restricted to the code points of the tables and of
\* the code's literals: canonical decomposition, and (NFC) recomposition of
\* the pairs that are not composition exclusions.
\* ------------------------------------------------------------------------
Decomp(c) ==
    CASE c = 2507 -> <<2503, 2494>>
      [] c = 2508 -> <<2503, 2519>>
      [] c = 2524 -> <<2465, 2492>>
      [] c = 2525 -> <<2466, 2492>>
      [] c = 2527 -> <<2479, 2492>>
      [] c = 2614 -> <<2616, 2620>>
      [] c = 2649 -> <<2582, 2620>>
      [] c = 2650 -> <<2583, 2620>>
      [] c = 2651 -> <<2588, 2620>>
      [] c = 2654 -> <<2603, 2620>>
      [] c = 2611 -> <<2610, 2620>>
      [] c = 2964 -> <<2962, 3031>>
      [] c = 3018 -> <<3014, 3006>>
      [] c = 3019 -> <<3015, 3006>>
      [] c = 3020 -> <<3014, 3031>>
      [] c = 3144 -> <<3142, 3158>>
      [] c = 3402 -> <<3398, 3390>>
      [] c = 3403 -> <<3399, 3390>>
      [] c = 3404 -> <<3398, 3415>>
      [] OTHER -> <<c>>

RECURSIVE NFKD(_)
NFKD(s) == IF s = <<>> THEN <<>> ELSE Decomp(Head(s)) \o NFKD(Tail(s))

ComposePair(a, b) ==
    CASE a = 2503 /\ b = 2494 -> <<2507>>
      [] a = 2503 /\ b = 2519 -> <<2508>>
      [] a = 2962 /\ b = 3031 -> <<2964>>
      [] a = 3014 /\ b = 3006 -> <<3018>>
      [] a = 3015 /\ b = 3006 -> <<3019>>
      [] a = 3014 /\ b = 3031 -> <<3020>>
      [] a = 3142 /\ b = 3158 -> <<3144>>
      [] a = 3398 /\ b = 3390 -> <<3402>>
      [] a = 3399 /\ b = 3390 -> <<3403>>
      [] a = 3398 /\ b = 3415 -> <<3404>>
      [] OTHER -> <<a, b>>

RECURSIVE Compose(_)
Compose(s) ==
    IF Len(s) < 2 THEN s
    ELSE LET p == ComposePair(s[1], s[2])
         IN  IF Len(p) = 1 THEN Compose(p \o SubSeq(s, 3, Len(s)))
             ELSE <<s[1]>> \o Compose(Tail(s))

NFC(s) == Compose(NFKD(s))

NFKD_each(lst) == [k \in DOMAIN lst |-> NFKD(lst[k])]
NFC_each(lst) == [k \in DOMAIN lst |-> NFC(lst[k])]

\* ------------------------------------------------------------------------
\* Character tables, copied from the __init__ of each tokenizer.
\* ------------------------------------------------------------------------
\* ---- Hindi: character lists of __init__ (code points; a Python str is a tuple of them) ----
Hindi_vyanjan ==
    << <<2325>>, <<2326>>, <<2327>>, <<2328>>, <<2329>>, <<2330>>, <<2331>>, <<2332>>, <<2333>>,
       <<2334>>, <<2335>>, <<2336>>, <<2337>>, <<2338>>, <<2339>>, <<2340>>, <<2341>>, <<2342>>,
       <<2343>>, <<2344>>, <<2346>>, <<2347>>, <<2348>>, <<2349>>, <<2350>>, <<2351>>, <<2352>>,
       <<2354>>, <<2355>>, <<2357>>, <<2358>>, <<2359>>, <<2360>>, <<2361>> >>
Hindi_svar ==
    << <<2309>>, <<2310>>, <<2311>>, <<2312>>, <<2313>>, <<2314>>, <<2315>>, <<2400>>, <<2319>>,
       <<2320>>, <<2323>>, <<2324>>, <<2418>>, <<2317>>, <<2321>> >>
Hindi_matras ==
    << <<2366>>, <<2367>>, <<2368>>, <<2369>>, <<2370>>, <<2371>>, <<2375>>, <<2376>>, <<2379>>,
       <<2380>>, <<2373>>, <<2377>>, <<2305>>, <<2306>>, <<2307>>, <<2364>> >>
Hindi_chinh ==
    << <<2384>>, <<8377>>, <<2404>>, <<33>>, <<36>>, <<44>>, <<46>>, <<45>>, <<37>>, <<2405>>,
       <<2429>> >>
Hindi_ank ==
    << <<2406>>, <<2407>>, <<2408>>, <<2409>>, <<2410>>, <<2411>>, <<2412>>, <<2413>>, <<2414>>,
       <<2415>> >>
Hindi_halanth == <<2381>>

\* ---- Malayalam: character lists of __init__ (code points; a Python str is a tuple of them) ----
Malayalam_svar ==
    << <<3333>>, <<3334>>, <<3335>>, <<3336>>, <<3337>>, <<3338>>, <<3339>>, <<3342>>, <<3343>>,
       <<3344>>, <<3346>>, <<3347>>, <<3348>> >>
Malayalam_vyanjan ==
    << <<3349>>, <<3350>>, <<3351>>, <<3352>>, <<3353>>, <<3354>>, <<3355>>, <<3356>>, <<3357>>,
       <<3358>>, <<3359>>, <<3360>>, <<3361>>, <<3362>>, <<3363>>, <<3364>>, <<3365>>, <<3366>>,
       <<3367>>, <<3368>>, <<3370>>, <<3371>>, <<3372>>, <<3373>>, <<3374>>, <<3375>>, <<3376>>,
       <<3378>>, <<3381>>, <<3382>>, <<3383>>, <<3384>>, <<3385>>, <<3379>>, <<3380>>, <<3377>>
       >>
Malayalam_matras ==
    << <<3390>>, <<3391>>, <<3392>>, <<3393>>, <<3394>>, <<3395>>, <<3400>>, <<3415>>, <<3398>>,
       <<3399>>, <<3330>>, <<3331>>, <<3387>>, <<3393, 3405>> >>
Malayalam_halanth == NFKD(<<3405>>)
Malayalam_chinh ==
    << <<8377>>, <<2404>>, <<33>>, <<36>>, <<37>>, <<63>>, <<46>>, <<44>>, <<45>>, <<40>>,
       <<41>> >>
Malayalam_ank ==
    << <<3430>>, <<3431>>, <<3432>>, <<3433>>, <<3434>>, <<3435>>, <<3436>>, <<3437>>, <<3438>>,
       <<3439>> >>
Malayalam_chillaksharam ==
    NFKD_each(<< <<3450>>, <<3451>>, <<3452>>, <<3453>>, <<3454>> >>)
Malayalam_special_matra ==
    NFKD_each(<< <<3330>>, <<3331>> >>)

\* ---- Telugu: character lists of __init__ (code points; a Python str is a tuple of them) ----
Telugu_svar ==
    << <<3077>>, <<3078>>, <<3079>>, <<3080>>, <<3081>>, <<3082>>, <<3083>>, <<3086>>, <<3087>>,
       <<3088>>, <<3090>>, <<3091>>, <<3092>> >>
Telugu_vyanjan ==
    << <<3093>>, <<3094>>, <<3095>>, <<3096>>, <<3097>>, <<3098>>, <<3099>>, <<3100>>, <<3101>>,
       <<3102>>, <<3103>>, <<3104>>, <<3105>>, <<3106>>, <<3107>>, <<3108>>, <<3109>>, <<3110>>,
       <<3111>>, <<3112>>, <<3114>>, <<3115>>, <<3116>>, <<3117>>, <<3118>>, <<3119>>, <<3120>>,
       <<3122>>, <<3125>>, <<3126>>, <<3127>>, <<3128>>, <<3129>>, <<3123>>, <<3093, 3149,
       3127>>, <<3121>> >>
Telugu_matras ==
    << <<3134>>, <<3135>>, <<3136>>, <<3137>>, <<3138>>, <<3139>>, <<3142>>, <<3143>>, <<3144>>,
       <<3158>>, <<3146>>, <<3147>>, <<3148>>, <<3074>>, <<3075>>, <<32, 3144>>, <<3073>> >>
Telugu_halanth == NFKD(<<3149>>)
Telugu_chinh ==
    << <<8377>>, <<2404>>, <<33>>, <<36>>, <<37>>, <<63>>, <<46>>, <<44>>, <<45>>, <<40>>,
       <<41>> >>
Telugu_ank ==
    << <<3174>>, <<3175>>, <<3176>>, <<3177>>, <<3178>>, <<3179>>, <<3180>>, <<3181>>, <<3182>>,
       <<3183>> >>
Telugu_special_consonants ==
    NFKD_each(<< <<3093, 3149, 3127>>, <<3121>> >>)
Telugu_special_matra ==
    NFKD_each(<< <<3074>>, <<3075>>, <<3133>> >>)

\* ---- Bengali: character lists of __init__ (code points; a Python str is a tuple of them) ----
Bengali_vyanjan ==
    << <<2453>>, <<2454>>, <<2455>>, <<2456>>, <<2457>>, <<2458>>, <<2459>>, <<2460>>, <<2461>>,
       <<2462>>, <<2463>>, <<2464>>, <<2465>>, <<2466>>, <<2467>>, <<2468>>, <<2469>>, <<2470>>,
       <<2471>>, <<2472>>, <<2474>>, <<2475>>, <<2476>>, <<2477>>, <<2478>>, <<2479>>, <<2480>>,
       <<2482>>, <<2486>>, <<2487>>, <<2488>>, <<2489>>, <<2465, 2492>>, <<2466, 2492>>, <<2479,
       2492>>, <<2545>>, <<2510>> >>
Bengali_svar ==
    << <<2437>>, <<2438>>, <<2439>>, <<2440>>, <<2441>>, <<2442>>, <<2443>>, <<2447>>, <<2448>>,
       <<2451>>, <<2452>> >>
Bengali_matras ==
    << <<2494>>, <<2495>>, <<2496>>, <<2497>>, <<2498>>, <<2499>>, <<2503>>, <<2504>>, <<2507>>,
       <<2508>>, <<2434>>, <<2435>>, <<2492>>, <<2433>>, <<2509>> >>
Bengali_chinh ==
    << <<2384>>, <<8377>>, <<2404>>, <<2405>>, <<33>>, <<36>>, <<44>>, <<46>>, <<45>>, <<37>> >>
Bengali_ank ==
    << <<2534>>, <<2535>>, <<2536>>, <<2537>>, <<2538>>, <<2539>>, <<2540>>, <<2541>>, <<2542>>,
       <<2543>> >>
Bengali_halanth == <<2509>>

\* ---- Gujarati: character lists of __init__ (code points; a Python str is a tuple of them) ----
Gujarati_vyanjan ==
    << <<2709>>, <<2710>>, <<2711>>, <<2712>>, <<2713>>, <<2714>>, <<2715>>, <<2716>>, <<2717>>,
       <<2718>>, <<2719>>, <<2720>>, <<2721>>, <<2722>>, <<2723>>, <<2724>>, <<2725>>, <<2726>>,
       <<2727>>, <<2728>>, <<2730>>, <<2731>>, <<2732>>, <<2733>>, <<2734>>, <<2735>>, <<2736>>,
       <<2738>>, <<2739>>, <<2741>>, <<2742>>, <<2743>>, <<2744>>, <<2745>> >>
Gujarati_svar ==
    << <<2693>>, <<2694>>, <<2695>>, <<2696>>, <<2697>>, <<2698>>, <<2699>>, <<2703>>, <<2704>>,
       <<2707>>, <<2708>>, <<2701>>, <<2705>> >>
Gujarati_matras ==
    << <<2750>>, <<2751>>, <<2752>>, <<2753>>, <<2754>>, <<2755>>, <<2756>>, <<2759>>, <<2760>>,
       <<2763>>, <<2764>>, <<2757>>, <<2761>>, <<2690>>, <<2691>> >>
Gujarati_chinh ==
    << <<2768>>, <<8377>>, <<2404>>, <<33>>, <<36>>, <<44>>, <<46>>, <<45>>, <<37>>, <<2405>>,
       <<2800>> >>
Gujarati_ank ==
    << <<2790>>, <<2791>>, <<2792>>, <<2793>>, <<2794>>, <<2795>>, <<2796>>, <<2797>>, <<2798>>,
       <<2799>> >>
Gujarati_halanth == <<2765>>

\* ---- Gurmukhi: character lists of __init__ (code points; a Python str is a tuple of them) ----
Gurmukhi_vyanjan ==
    << <<2616>>, <<2617>>, <<2581>>, <<2582>>, <<2583>>, <<2584>>, <<2585>>, <<2586>>, <<2587>>,
       <<2588>>, <<2589>>, <<2590>>, <<2591>>, <<2592>>, <<2593>>, <<2594>>, <<2595>>, <<2596>>,
       <<2597>>, <<2598>>, <<2599>>, <<2600>>, <<2602>>, <<2603>>, <<2604>>, <<2605>>, <<2606>>,
       <<2607>>, <<2608>>, <<2610>>, <<2613>>, <<2652>> >>
Gurmukhi_svar ==
    << <<2675>>, <<2565>>, <<2674>>, <<2580>>, <<2576>>, <<2566>>, <<2568>>, <<2570>>, <<2579>>,
       <<2575>>, <<2567>>, <<2569>> >>
Gurmukhi_matras ==
    << <<2622>>, <<2623>>, <<2624>>, <<2625>>, <<2626>>, <<2631>>, <<2632>>, <<2635>>, <<2636>>,
       <<2672>>, <<2673>>, <<2562>>, <<2563>> >>
Gurmukhi_chinh ==
    << <<2384>>, <<8377>>, <<2404>>, <<33>>, <<36>>, <<44>>, <<46>>, <<45>>, <<37>>, <<2405>>,
       <<2429>>, <<2676>> >>
Gurmukhi_ank ==
    << <<2662>>, <<2663>>, <<2664>>, <<2665>>, <<2666>>, <<2667>>, <<2668>>, <<2669>>, <<2670>>,
       <<2671>> >>
Gurmukhi_subjoined_characters ==
    << <<2607>>, <<2608>>, <<2617>>, <<2613>> >>
Gurmukhi_special_consonants ==
    << <<2614>>, <<2582, 2620>>, <<2583, 2620>>, <<2651>>, <<2603, 2620>>, <<2610, 2620>> >>
Gurmukhi_halanth == <<2637>>

\* ---- Tamil: character lists of __init__ (code points; a Python str is a tuple of them) ----
Tamil_uyir_eluthu ==
    << <<2949>>, <<2950>>, <<2951>>, <<2952>>, <<2953>>, <<2954>>, <<2958>>, <<2959>>, <<2960>>,
       <<2962>>, <<2963>>, <<2964>> >>
Tamil_mei_eluthu ==
    << <<2965>>, <<2969>>, <<2970>>, <<2974>>, <<2975>>, <<2979>>, <<2980>>, <<2984>>, <<2986>>,
       <<2990>>, <<2991>>, <<2992>>, <<2994>>, <<2997>>, <<2996>>, <<2995>>, <<2993>>, <<2985>>
       >>
Tamil_grantha_eluthu ==
    << <<2972>>, <<2999>>, <<3000>>, <<3001>> >>
Tamil_pulli == <<3021>>
Tamil_aytham == <<2947>>
Tamil_numbers ==
    << <<3046>>, <<3047>>, <<3048>>, <<3049>>, <<3050>>, <<3051>>, <<3052>>, <<3053>>, <<3054>>,
       <<3055>>, <<3056>>, <<3057>>, <<3058>> >>
Tamil_symbols ==
    << <<3024>>, <<8377>>, <<2404>>, <<33>>, <<36>>, <<44>>, <<46>>, <<45>>, <<37>> >>
\* the matra suffixes of the uyirmei comprehension
Tamil_uyirmei_matras ==
    << <<>>, <<3006>>, <<3007>>, <<3008>>, <<3009>>, <<3010>>, <<3014>>, <<3015>>, <<3016>>,
       <<3018>>, <<3019>>, <<3020>> >>
Tamil_uyirmei_eluthu ==
    [k \in 1..(Len(Tamil_mei_eluthu) * Len(Tamil_uyirmei_matras)) |->
        Tamil_mei_eluthu[((k - 1) \div Len(Tamil_uyirmei_matras)) + 1]
            \o Tamil_uyirmei_matras[((k - 1) % Len(Tamil_uyirmei_matras)) + 1]]

\* ------------------------------------------------------------------------
\* Class tuples of each head, as __init__ and _normalize_charset build them.
\* ------------------------------------------------------------------------
Hindi_h_c_classes == NFKD_each(<<EOS, PAD, BLANK>> \o Hindi_vyanjan)
Hindi_f_c_classes ==
    NFKD_each(<<EOS, PAD>> \o Hindi_vyanjan \o Hindi_svar \o Hindi_ank \o Hindi_chinh)
Hindi_d_classes == NFKD_each(<<EOS, PAD>> \o Hindi_matras)

Gujarati_h_c_classes == NFKD_each(<<EOS, PAD, BLANK>> \o Gujarati_vyanjan)
Gujarati_f_c_classes ==
    NFKD_each(<<EOS, PAD>> \o Gujarati_vyanjan \o Gujarati_svar \o Gujarati_ank
              \o Gujarati_chinh)
Gujarati_d_classes == NFKD_each(<<EOS, PAD>> \o Gujarati_matras)

Bengali_h_c_classes == NFC_each(<<EOS, PAD, BLANK>> \o Bengali_vyanjan)
Bengali_f_c_classes ==
    NFC_each(<<EOS, PAD>> \o Bengali_vyanjan \o Bengali_svar \o Bengali_ank \o Bengali_chinh)
Bengali_d_classes == NFC_each(<<EOS, PAD>> \o Bengali_matras)

Gurmukhi_h_c_classes == NFKD_each(<<EOS, PAD, BLANK>> \o Gurmukhi_subjoined_characters)
Gurmukhi_f_c_classes ==
    NFKD_each(<<EOS, PAD>> \o Gurmukhi_vyanjan \o Gurmukhi_svar \o Gurmukhi_ank
              \o Gurmukhi_chinh \o Gurmukhi_special_consonants)
Gurmukhi_d_classes == NFKD_each(<<EOS, PAD>> \o Gurmukhi_matras)
\* the nukta literal of _check_f_c, grp_sanity and label_transform
Gurmukhi_nukta == <<2620>>

Tamil_f_c_classes ==
    <<EOS, PAD, BLANK>> \o NFKD_each(Tamil_uyir_eluthu) \o NFKD_each(Tamil_mei_eluthu)
        \o NFKD_each(Tamil_uyirmei_eluthu) \o NFKD_each(Tamil_grantha_eluthu)
        \o <<Tamil_aytham>> \o NFKD_each(Tamil_numbers) \o NFKD_each(Tamil_symbols)
Tamil_d_classes ==
    <<EOS, PAD>>
        \o << <<3006>>, <<3007>>, <<3008>>, <<3009>>, <<3010>>, <<3014>>, <<3015>>, <<3016>>,
              <<3018>>, <<3019>>, <<3020>> >>
        \o <<Tamil_pulli>>

Malayalam_h_c_classes == <<EOS, PAD, BLANK>> \o NFKD_each(Malayalam_vyanjan)
Malayalam_f_c_classes ==
    <<EOS, PAD, BLANK>> \o NFKD_each(Malayalam_vyanjan) \o NFKD_each(Malayalam_svar)
        \o NFKD_each(Malayalam_ank) \o NFKD_each(Malayalam_chinh)
        \o Malayalam_chillaksharam
Malayalam_d_classes == <<EOS, PAD>> \o NFKD_each(Malayalam_matras)

Telugu_h_c_classes == <<EOS, PAD, BLANK>> \o NFKD_each(Telugu_vyanjan)
Telugu_f_c_classes ==
    <<EOS, PAD, BLANK>> \o NFKD_each(Telugu_vyanjan) \o NFKD_each(Telugu_svar)
        \o NFKD_each(Telugu_ank) \o NFKD_each(Telugu_chinh) \o Telugu_special_consonants
Telugu_d_classes == <<EOS, PAD>> \o NFC_each(Telugu_matras)

\* ------------------------------------------------------------------------
\* HindiTokenizer: segmentation and validation
\* ------------------------------------------------------------------------
Hindi_check_h_c(label, idx) ==
    /\ idx < Len(label)
    /\ InMap(Hindi_h_c_classes, At(label, idx))
    /\ idx + 1 < Len(label)
    /\ At(label, idx + 1) = Hindi_halanth

Hindi_check_f_c(label, idx) ==
    /\ idx < Len(label)
    /\ InMap(Hindi_f_c_classes, At(label, idx))
    /\ (idx + 1 >= Len(label) \/ At(label, idx + 1) # Hindi_halanth)

Hindi_check_d_c(label, idx) ==
    /\ idx < Len(label)
    /\ InMap(Hindi_d_classes, At(label, idx))

\* The while loop of grp_sanity over one group, from index i with the
\* remaining counts h, f, d and the diacritics seen: "False" when the loop
\* returns False, otherwise the counts left at the end of the group.
RECURSIVE Hindi_sanity_walk(_, _, _, _, _, _)
Hindi_sanity_walk(grp, i, h, f, d, seen) ==
    IF i >= Len(grp) THEN [ret |-> "none", h |-> h, f |-> f, d |-> d]
    ELSE IF i + 1 < Len(grp) /\ Hindi_halanth = At(grp, i + 1)
            /\ InMap(Hindi_h_c_classes, At(grp, i)) /\ h > 0
         THEN Hindi_sanity_walk(grp, i + 2, h - 1, f, d, seen)
    ELSE IF InMap(Hindi_f_c_classes, At(grp, i)) /\ f > 0
         THEN Hindi_sanity_walk(grp, i + 1, h, f - 1, d, seen)
    ELSE IF InMap(Hindi_d_classes, At(grp, i)) /\ d = 2
         THEN Hindi_sanity_walk(grp, i + 1, h, f, d - 1, seen \cup {At(grp, i)})
    ELSE IF InMap(Hindi_d_classes, At(grp, i)) /\ d # 2 /\ At(grp, i) \notin seen
         THEN Hindi_sanity_walk(grp, i + 1, h, f, d - 1, seen)
    ELSE IF InMap(Hindi_d_classes, At(grp, i)) /\ d # 2 /\ At(grp, i) \in seen
         THEN [ret |-> "False", h |-> h, f |-> f, d |-> d]
    \* the else branch only prints and goes on
    ELSE Hindi_sanity_walk(grp, i + 1, h, f, d, seen)

\* the iteration without the check that the group has its full character
Hindi_sanity_grp_no_full_check(grps, k) ==
    LET w == Hindi_sanity_walk(grps[k + 1], 0, 2, 1, 2, {})
    IN  IF w.ret = "False" THEN "False" ELSE "Continue"

\* One iteration of the for loop of grp_sanity: the group grps[k] (0-based k)
Hindi_sanity_grp(grps, k) ==
    LET w == Hindi_sanity_walk(grps[k + 1], 0, 2, 1, 2, {})
    IN  IF w.ret = "False" THEN "False"
        ELSE IF w.f = 1 \/ <<w.h, w.f, w.d>> = <<2, 1, 2>> THEN "False"
        ELSE "Continue"

\* One iteration of the while loop of label_transform starting at idx = t:
\* the index reached and the running group built.
Hindi_scan_iteration(label, t) ==
    LET h1 == Hindi_check_h_c(label, t)
        i1 == IF h1 THEN t + 2 ELSE t
        h2 == h1 /\ Hindi_check_h_c(label, i1)
        i2 == IF h2 THEN i1 + 2 ELSE i1
        fc == Hindi_check_f_c(label, i2)
        i3 == IF fc THEN i2 + 1 ELSE i2
        d1 == Hindi_check_d_c(label, i3)
        i4 == IF d1 THEN i3 + 1 ELSE i3
        d2 == d1 /\ Hindi_check_d_c(label, i4)
        i5 == IF d2 THEN i4 + 1 ELSE i4
    IN  [idx |-> i5,
         grp |-> (IF h1 THEN Slice(label, t, t + 2) ELSE <<>>)
                 \o (IF h2 THEN Slice(label, i1, i1 + 2) ELSE <<>>)
                 \o (IF fc THEN At(label, i2) ELSE <<>>)
                 \o (IF d1 THEN At(label, i3) ELSE <<>>)
                 \o (IF d2 THEN At(label, i4) ELSE <<>>)]

\* ------------------------------------------------------------------------
\* GujaratiTokenizer: segmentation and validation
\* ------------------------------------------------------------------------
Gujarati_check_h_c(label, idx) ==
    /\ idx < Len(label)
    /\ InMap(Gujarati_h_c_classes, At(label, idx))
    /\ idx + 1 < Len(label)
    /\ At(label, idx + 1) = Gujarati_halanth

Gujarati_check_f_c(label, idx) ==
    /\ idx < Len(label)
    /\ InMap(Gujarati_f_c_classes, At(label, idx))
    /\ (idx + 1 >= Len(label) \/ At(label, idx + 1) # Gujarati_halanth)

Gujarati_check_d_c(label, idx) ==
    /\ idx < Len(label)
    /\ InMap(Gujarati_d_classes, At(label, idx))

\* The while loop of grp_sanity over one group, from index i with the
\* remaining counts h, f, d and the diacritics seen: "False" when the loop
\* returns False, otherwise the counts left at the end of the group.
RECURSIVE Gujarati_sanity_walk(_, _, _, _, _, _)
Gujarati_sanity_walk(grp, i, h, f, d, seen) ==
    IF i >= Len(grp) THEN [ret |-> "none", h |-> h, f |-> f, d |-> d]
    ELSE IF i + 1 < Len(grp) /\ Gujarati_halanth = At(grp, i + 1)
            /\ InMap(Gujarati_h_c_classes, At(grp, i)) /\ h > 0
         THEN Gujarati_sanity_walk(grp, i + 2, h - 1, f, d, seen)
    ELSE IF InMap(Gujarati_f_c_classes, At(grp, i)) /\ f > 0
         THEN Gujarati_sanity_walk(grp, i + 1, h, f - 1, d, seen)
    ELSE IF InMap(Gujarati_d_classes, At(grp, i)) /\ d = 2
         THEN Gujarati_sanity_walk(grp, i + 1, h, f, d - 1, seen \cup {At(grp, i)})
    ELSE IF InMap(Gujarati_d_classes, At(grp, i)) /\ d # 2 /\ At(grp, i) \notin seen
         THEN Gujarati_sanity_walk(grp, i + 1, h, f, d - 1, seen)
    ELSE IF InMap(Gujarati_d_classes, At(grp, i)) /\ d # 2 /\ At(grp, i) \in seen
         THEN [ret |-> "False", h |-> h, f |-> f, d |-> d]
    \* the else branch only prints and goes on
    ELSE Gujarati_sanity_walk(grp, i + 1, h, f, d, seen)

\* One iteration of the for loop of grp_sanity: the group grps[k] (0-based k)
Gujarati_sanity_grp(grps, k) ==
    LET w == Gujarati_sanity_walk(grps[k + 1], 0, 2, 1, 2, {})
    IN  IF w.ret = "False" THEN "False"
        ELSE IF w.f = 1 \/ <<w.h, w.f, w.d>> = <<2, 1, 2>> THEN "False"
        ELSE "Continue"

\* One iteration of the while loop of label_transform starting at idx = t:
\* the index reached and the running group built.
Gujarati_scan_iteration(label, t) ==
    LET h1 == Gujarati_check_h_c(label, t)
        i1 == IF h1 THEN t + 2 ELSE t
        h2 == h1 /\ Gujarati_check_h_c(label, i1)
        i2 == IF h2 THEN i1 + 2 ELSE i1
        fc == Gujarati_check_f_c(label, i2)
        i3 == IF fc THEN i2 + 1 ELSE i2
        d1 == Gujarati_check_d_c(label, i3)
        i4 == IF d1 THEN i3 + 1 ELSE i3
        d2 == d1 /\ Gujarati_check_d_c(label, i4)
        i5 == IF d2 THEN i4 + 1 ELSE i4
    IN  [idx |-> i5,
         grp |-> (IF h1 THEN Slice(label, t, t + 2) ELSE <<>>)
                 \o (IF h2 THEN Slice(label, i1, i1 + 2) ELSE <<>>)
                 \o (IF fc THEN At(label, i2) ELSE <<>>)
                 \o (IF d1 THEN At(label, i3) ELSE <<>>)
                 \o (IF d2 THEN At(label, i4) ELSE <<>>)]

\* ------------------------------------------------------------------------
\* BengaliTokenizer: segmentation and validation
\* ------------------------------------------------------------------------
Bengali_check_h_c(label, idx) ==
    /\ idx < Len(label)
    /\ InMap(Bengali_h_c_classes, At(label, idx))
    /\ idx + 1 < Len(label)
    /\ At(label, idx + 1) = Bengali_halanth

Bengali_check_f_c(label, idx) ==
    \* the vowel A followed by the hasant counts as a full character
    IF idx + 1 < Len(label) /\ At(label, idx) = <<2437>> /\ At(label, idx + 1) = <<2509>>
    THEN TRUE
    ELSE /\ idx < Len(label)
         /\ InMap(Bengali_f_c_classes, At(label, idx))
         /\ (idx + 1 >= Len(label) \/ At(label, idx + 1) # Bengali_halanth)

Bengali_check_d_c(label, idx) ==
    /\ idx < Len(label)
    /\ InMap(Bengali_d_classes, At(label, idx))

RECURSIVE Bengali_sanity_walk(_, _, _, _, _, _)
Bengali_sanity_walk(grp, i, h, f, d, seen) ==
    IF i >= Len(grp) THEN [ret |-> "none", h |-> h, f |-> f, d |-> d, seen |-> seen]
    ELSE IF i + 1 < Len(grp) /\ Bengali_halanth = At(grp, i + 1)
            /\ InMap(Bengali_h_c_classes, At(grp, i)) /\ h > 0
         THEN Bengali_sanity_walk(grp, i + 2, h - 1, f, d, seen)
    ELSE IF InMap(Bengali_f_c_classes, At(grp, i)) /\ f > 0
         THEN Bengali_sanity_walk(grp, i + 1, h, f - 1, d, seen)
    ELSE IF InMap(Bengali_d_classes, At(grp, i)) /\ d > 0
         THEN IF At(grp, i) \notin seen
              THEN Bengali_sanity_walk(grp, i + 1, h, f, d - 1, seen \cup {At(grp, i)})
              ELSE [ret |-> "False", h |-> h, f |-> f, d |-> d, seen |-> seen]
    ELSE [ret |-> "False", h |-> h, f |-> f, d |-> d, seen |-> seen]

Bengali_sanity_grp(grps, k) ==
    LET w == Bengali_sanity_walk(grps[k + 1], 0, 2, 1, 2, {})
    IN  IF w.ret = "False" THEN "False"
        ELSE IF w.f = 1 THEN "False"
        ELSE IF Cardinality(w.seen) > 2 THEN "False"
        ELSE "Continue"

\* the two while loops run at most twice each
Bengali_scan_iteration(label, t) ==
    LET h1 == Bengali_check_h_c(label, t)
        i1 == IF h1 THEN t + 2 ELSE t
        h2 == h1 /\ Bengali_check_h_c(label, i1)
        i2 == IF h2 THEN i1 + 2 ELSE i1
        fc == Bengali_check_f_c(label, i2)
        i3 == IF fc THEN i2 + 1 ELSE i2
        d1 == Bengali_check_d_c(label, i3)
        i4 == IF d1 THEN i3 + 1 ELSE i3
        d2 == d1 /\ Bengali_check_d_c(label, i4)
        i5 == IF d2 THEN i4 + 1 ELSE i4
    IN  [idx |-> i5,
         grp |-> (IF h1 THEN Slice(label, t, t + 2) ELSE <<>>)
                 \o (IF h2 THEN Slice(label, i1, i1 + 2) ELSE <<>>)
                 \o (IF fc THEN At(label, i2) ELSE <<>>)
                 \o (IF d1 THEN At(label, i3) ELSE <<>>)
                 \o (IF d2 THEN At(label, i4) ELSE <<>>)]

\* ------------------------------------------------------------------------
\* GurmukhiTokenizer: segmentation and validation
\* ------------------------------------------------------------------------
Gurmukhi_check_h_c(label, idx) ==
    /\ idx + 1 < Len(label)
    /\ At(label, idx) = Gurmukhi_halanth
    /\ InMap(Gurmukhi_h_c_classes, At(label, idx + 1))

Gurmukhi_check_f_c(label, idx) ==
    /\ idx < Len(label)
    /\ InMap(Gurmukhi_f_c_classes, At(label, idx))

Gurmukhi_check_d_c(label, idx) ==
    /\ idx < Len(label)
    /\ InMap(Gurmukhi_d_classes, At(label, idx))

RECURSIVE Gurmukhi_sanity_walk(_, _, _, _, _, _)
Gurmukhi_sanity_walk(grp, i, h, f, d, seen) ==
    IF i >= Len(grp) THEN [ret |-> "none", h |-> h, f |-> f, d |-> d]
    ELSE IF InMap(Gurmukhi_f_c_classes, At(grp, i)) /\ f > 0
         THEN IF i + 1 < Len(grp) /\ At(grp, i + 1) = Gurmukhi_nukta
              THEN Gurmukhi_sanity_walk(grp, i + 2, h, f - 1, d, seen)
              ELSE Gurmukhi_sanity_walk(grp, i + 1, h, f - 1, d, seen)
    ELSE IF At(grp, i) = Gurmukhi_halanth /\ h > 0
         THEN IF i + 1 < Len(grp) /\ InMap(Gurmukhi_h_c_classes, At(grp, i + 1))
              THEN Gurmukhi_sanity_walk(grp, i + 2, h - 1, f, d, seen)
              ELSE Gurmukhi_sanity_walk(grp, i + 1, h, f, d, seen)
    ELSE IF InMap(Gurmukhi_d_classes, At(grp, i)) /\ d > 0
         THEN IF At(grp, i) \in seen
              THEN [ret |-> "False", h |-> h, f |-> f, d |-> d]
              ELSE Gurmukhi_sanity_walk(grp, i + 1, h, f, d - 1, seen \cup {At(grp, i)})
    ELSE [ret |-> "False", h |-> h, f |-> f, d |-> d]

\* a validator that does not ask for a full character
Gurmukhi_sanity_grp_no_full(grps, k) ==
    IF Gurmukhi_sanity_walk(grps[k + 1], 0, 1, 1, 2, {}).ret = "False"
    THEN "False" ELSE "Continue"

Gurmukhi_sanity_grp(grps, k) ==
    LET w == Gurmukhi_sanity_walk(grps[k + 1], 0, 1, 1, 2, {})
    IN  IF w.ret = "False" THEN "False"
        ELSE IF w.f = 1 \/ (w.h = 1 /\ w.f = 1 /\ w.d = 2) THEN "False"
        ELSE "Continue"

Gurmukhi_scan_iteration(label, t) ==
    LET fc == Gurmukhi_check_f_c(label, t)
        i1 == IF fc THEN t + 1 ELSE t
        nk == fc /\ i1 < Len(label) /\ At(label, i1) = Gurmukhi_nukta
        i2 == IF nk THEN i1 + 1 ELSE i1
        hc == Gurmukhi_check_h_c(label, i2)
        i3 == IF hc THEN i2 + 2 ELSE i2
        d1 == Gurmukhi_check_d_c(label, i3)
        i4 == IF d1 THEN i3 + 1 ELSE i3
        d2 == d1 /\ Gurmukhi_check_d_c(label, i4)
        i5 == IF d2 THEN i4 + 1 ELSE i4
    IN  [idx |-> i5,
         grp |-> (IF fc THEN At(label, t) ELSE <<>>)
                 \o (IF nk THEN At(label, i1) ELSE <<>>)
                 \o (IF hc THEN Slice(label, i2, i2 + 2) ELSE <<>>)
                 \o (IF d1 THEN At(label, i3) ELSE <<>>)
                 \o (IF d2 THEN At(label, i4) ELSE <<>>)]

\* ------------------------------------------------------------------------
\* TamilTokenizer: segmentation and validation
\* ------------------------------------------------------------------------
Tamil_check_f_c(label, idx) ==
    /\ idx < Len(label)
    /\ InList(Tamil_f_c_classes, At(label, idx))

Tamil_check_diac(label, idx) ==
    /\ idx < Len(label)
    /\ InList(Tamil_d_classes, At(label, idx))

\* d_seen is the str of the first diacritic ('' before it)
RECURSIVE Tamil_sanity_walk(_, _, _, _, _)
Tamil_sanity_walk(grp, i, f, d, d_seen) ==
    IF i >= Len(grp) THEN [ret |-> "none", f |-> f, d |-> d]
    ELSE IF Tamil_check_f_c(grp, i) /\ f > 0
         THEN Tamil_sanity_walk(grp, i + 1, f - 1, d, d_seen)
    ELSE IF Tamil_check_diac(grp, i) /\ d > 0
         THEN IF f # 0 THEN [ret |-> "False", f |-> f, d |-> d]
              ELSE IF d = 2 THEN Tamil_sanity_walk(grp, i + 1, f, d - 1, At(grp, i))
              ELSE IF At(grp, i) # d_seen THEN Tamil_sanity_walk(grp, i + 1, f, d - 1, d_seen)
              ELSE [ret |-> "False", f |-> f, d |-> d]
    ELSE [ret |-> "False", f |-> f, d |-> d]

Tamil_sanity_grp(grps, k) ==
    LET w == Tamil_sanity_walk(grps[k + 1], 0, 1, 2, <<>>)
    IN  IF w.ret = "False" THEN "False"
        ELSE IF <<w.f, w.d>> = <<1, 2>> THEN "False"
        ELSE IF w.f = 1 /\ k # Len(grps) - 1 THEN "False"
        ELSE "Continue"

\* an iteration that steps back one character once past the second
Tamil_scan_iteration_back(label, t) ==
    [idx |-> IF t >= 2 THEN t - 1 ELSE t + 1, grp |-> At(label, t)]

Tamil_scan_iteration(label, t) ==
    LET fc == Tamil_check_f_c(label, t)
        i1 == IF fc THEN t + 1 ELSE t
        d1 == Tamil_check_diac(label, i1)
        i2 == IF d1 THEN i1 + 1 ELSE i1
        d2 == d1 /\ i2 < Len(label) /\ Tamil_check_diac(label, i2)
        i3 == IF d2 THEN i2 + 1 ELSE i2
    IN  [idx |-> i3,
         grp |-> (IF fc THEN At(label, t) ELSE <<>>)
                 \o (IF d1 THEN At(label, i1) ELSE <<>>)
                 \o (IF d2 THEN At(label, i2) ELSE <<>>)]

\* ------------------------------------------------------------------------
\* MalayalamTokenizer: segmentation and validation
\* ------------------------------------------------------------------------
Malayalam_check_h_c(label, idx) ==
    /\ idx < Len(label)
    /\ InMap(Malayalam_h_c_classes, At(label, idx))
    /\ idx + 1 < Len(label)
    /\ At(label, idx + 1) = Malayalam_halanth

Malayalam_check_f_c(label, idx) ==
    /\ idx < Len(label)
    /\ InMap(Malayalam_f_c_classes, At(label, idx))
    /\ (idx + 1 >= Len(label) \/ At(label, idx + 1) # Malayalam_halanth)

Malayalam_check_d_c(label, idx) ==
    /\ idx < Len(label)
    /\ InMap(Malayalam_d_classes, At(label, idx))

\* the literals the code normalizes in place
Malayalam_u == NFKD(<<3393>>)
Malayalam_e == NFKD(<<3398>>)
Malayalam_ee == NFKD(<<3399>>)
Malayalam_aa == NFKD(<<3390>>)
Malayalam_au == NFKD(<<3415>>)
Malayalam_ai == NFKD(<<3400>>)

RECURSIVE Malayalam_sanity_walk(_, _, _, _, _, _)
Malayalam_sanity_walk(grp, i, h, f, d, seen) ==
    IF i >= Len(grp) THEN [ret |-> "none", h |-> h, f |-> f, d |-> d]
    ELSE IF InList(Malayalam_chillaksharam, At(grp, i))
         THEN IF Len(grp) # 1
              THEN [ret |-> "False", h |-> h, f |-> f, d |-> d]
              ELSE Malayalam_sanity_walk(grp, i + 1, h, f - 1, d, seen)
    ELSE IF i + 1 < Len(grp) /\ Malayalam_halanth = At(grp, i + 1)
            /\ InMap(Malayalam_h_c_classes, At(grp, i)) /\ h > 0
         THEN Malayalam_sanity_walk(grp, i + 2, h - 1, f, d, seen)
    ELSE IF InMap(Malayalam_f_c_classes, At(grp, i)) /\ f > 0
         THEN Malayalam_sanity_walk(grp, i + 1, h, f - 1, d, seen)
    ELSE IF InMap(Malayalam_d_classes, At(grp, i)) /\ d > 0 /\ At(grp, i) \notin seen
         THEN Malayalam_sanity_walk(grp, i + 1, h, f, d - 1, seen \cup {At(grp, i)})
    ELSE IF InMap(Malayalam_d_classes, At(grp, i)) /\ d > 0 /\ At(grp, i) \in seen
         THEN [ret |-> "False", h |-> h, f |-> f, d |-> d]
    \* the legacy u + chandrakala sign: i += 1 in the branch and again after it
    ELSE IF At(grp, i) = Malayalam_halanth /\ At(grp, i - 1) = Malayalam_u
         THEN Malayalam_sanity_walk(grp, i + 2, h, f, d, seen)
    ELSE [ret |-> "False", h |-> h, f |-> f, d |-> d]

\* One iteration of the for loop of grp_sanity; "True" is the early
\* return True taken for a group without full character that ends in the
\* chandrakala.  The groups are non-empty.
Malayalam_sanity_grp(grps, k) ==
    LET grp == grps[k + 1]
        w == Malayalam_sanity_walk(grp, 0, 3, 1, 3, {})
    IN  IF At(grp, Len(grp) - 1) = Malayalam_halanth
           /\ InList(SubSeq(grps, 1, Len(grps) - 1), grp)
        THEN "False"
        ELSE IF w.ret = "False" THEN "False"
        ELSE IF w.f = 1
             THEN IF Slice(grp, Len(grp) - 1, Len(grp)) = Malayalam_halanth
                  THEN "True" ELSE "False"
        ELSE "Continue"

\* the second code point of a split vowel sign that follows label[idx-1]
Malayalam_pair(label, idx) ==
    IF At(label, idx - 1) = Malayalam_e
    THEN At(label, idx) \in {Malayalam_e, Malayalam_au, Malayalam_aa}
    ELSE IF At(label, idx - 1) = Malayalam_ee /\ At(label, idx) = Malayalam_aa
    THEN TRUE
    ELSE IF At(label, idx - 1) = Malayalam_aa
    THEN At(label, idx) \in {Malayalam_e, Malayalam_ee}
    ELSE IF At(label, idx - 1) = Malayalam_au
    THEN At(label, idx) = Malayalam_e
    ELSE FALSE

\* the nested checks for up to three half-characters
RECURSIVE Malayalam_scan_half(_, _, _)
Malayalam_scan_half(label, st, left) ==
    IF left > 0 /\ Malayalam_check_h_c(label, st.idx)
    THEN Malayalam_scan_half(label, take(label, st, 2), left - 1)
    ELSE st

\* the full character; f_c_flag stays False after a digit or a sign
Malayalam_scan_full(label, st) ==
    IF /\ Malayalam_check_f_c(label, st.idx)
       /\ ~InList(Malayalam_chillaksharam, At(label, st.idx))
    THEN [take(label, st, 1) EXCEPT
              !.flag = ~InList(NFKD_each(Malayalam_ank) \o NFKD_each(Malayalam_chinh),
                                  At(label, st.idx))]
    ELSE st

\* after the first diacritic: the chandrakala after the sign u, else the
\* second part of a two-part vowel sign
Malayalam_scan_second(label, st) ==
    IF /\ st.idx < Len(label)
       /\ At(label, st.idx - 1) = Malayalam_u
       /\ At(label, st.idx) = Malayalam_halanth
    THEN take(label, st, 1)
    ELSE IF st.idx < Len(label) /\ Malayalam_pair(label, st.idx)
    THEN take(label, st, 1)
    ELSE st

\* the anusvara or visarga that closes the group
Malayalam_scan_special(label, st) ==
    IF st.idx < Len(label) /\ InList(Malayalam_special_matra, At(label, st.idx))
    THEN take(label, st, 1)
    ELSE st

\* the diacritics, read only after a full character that takes them
Malayalam_scan_diacritics(label, st) ==
    IF Malayalam_check_d_c(label, st.idx) /\ st.flag
    THEN Malayalam_scan_special(label,
             Malayalam_scan_second(label, take(label, st, 1)))
    ELSE st

\* One iteration of the while loop of label_transform starting at idx = t:
\* the index reached and the running group built.
Malayalam_scan_iteration(label, t) ==
    IF InList(Malayalam_chillaksharam, At(label, t))
    THEN [idx |-> t + 1, grp |-> At(label, t), flag |-> FALSE]
    ELSE Malayalam_scan_diacritics(label,
             Malayalam_scan_full(label,
                 Malayalam_scan_half(label, [idx |-> t, grp |-> <<>>, flag |-> FALSE], 3)))

\* ------------------------------------------------------------------------
\* TeluguTokenizer: segmentation and validation
\* ------------------------------------------------------------------------
Telugu_check_h_c(label, idx) ==
    /\ idx < Len(label)
    /\ InMap(Telugu_h_c_classes, At(label, idx))
    /\ idx + 1 < Len(label)
    /\ At(label, idx + 1) = Telugu_halanth

Telugu_check_f_c(label, idx) ==
    /\ idx < Len(label)
    /\ InMap(Telugu_f_c_classes, At(label, idx))
    /\ (idx + 1 >= Len(label) \/ At(label, idx + 1) # Telugu_halanth)

Telugu_check_d_c(label, idx) ==
    /\ idx < Len(label)
    /\ InMap(Telugu_d_classes, At(label, idx))

\* the vowel sign e, the ai length mark, and the composed sign ai
Telugu_e == <<3142>>
Telugu_ai_length == <<3158>>
\* the two parts of the vowel sign written back in the wrong order
Telugu_ai_reversed == <<3158, 3142>>
Telugu_ai == <<3144>>

\* d_seen is never appended to, so it stays empty; "IndexError" is the
\* grp[i+1] of the e + ai-length test read past the end of the group.
RECURSIVE Telugu_sanity_walk(_, _, _, _, _, _)
Telugu_sanity_walk(grp, i, h, f, d, seen) ==
    IF i >= Len(grp) THEN [ret |-> "none", h |-> h, f |-> f, d |-> d]
    ELSE IF InList(Telugu_special_consonants, At(grp, i))
         THEN IF Len(grp) # 1
              THEN [ret |-> "False", h |-> h, f |-> f, d |-> d]
              ELSE Telugu_sanity_walk(grp, i + 1, h, f - 1, d, seen)
    ELSE IF i + 1 < Len(grp) /\ Telugu_halanth = At(grp, i + 1)
            /\ InMap(Telugu_h_c_classes, At(grp, i)) /\ h > 0
         THEN Telugu_sanity_walk(grp, i + 2, h - 1, f, d, seen)
    ELSE IF InMap(Telugu_f_c_classes, At(grp, i)) /\ f > 0
         THEN Telugu_sanity_walk(grp, i + 1, h, f - 1, d, seen)
    ELSE IF InMap(Telugu_d_classes, At(grp, i)) /\ d > 0 /\ At(grp, i) \notin seen
         THEN Telugu_sanity_walk(grp, i + 1, h, f, d - 1, seen)
    \* the duplicate branch only prints and goes on
    ELSE IF InMap(Telugu_d_classes, At(grp, i)) /\ d > 0 /\ At(grp, i) \in seen
         THEN Telugu_sanity_walk(grp, i + 1, h, f, d, seen)
    ELSE IF At(grp, i) = Telugu_e /\ i + 1 >= Len(grp)
         THEN [ret |-> "IndexError", h |-> h, f |-> f, d |-> d]
    ELSE IF At(grp, i) = Telugu_e /\ At(grp, i + 1) = Telugu_ai_length /\ d > 0
            /\ At(grp, i) \notin seen /\ At(grp, i + 1) \notin seen
         THEN Telugu_sanity_walk(grp, i + 1, h, f, d - 1, seen)
    ELSE [ret |-> "False", h |-> h, f |-> f, d |-> d]

Telugu_sanity_grp(grps, k) ==
    LET grp == grps[k + 1]
        w == Telugu_sanity_walk(grp, 0, 3, 1, 2, {})
    IN  IF At(grp, Len(grp) - 1) = Telugu_halanth
           /\ InList(SubSeq(grps, 1, Len(grps) - 1), grp)
        THEN "False"
        ELSE IF w.ret # "none" THEN w.ret
        ELSE IF w.f = 1
             THEN IF Slice(grp, Len(grp) - 1, Len(grp)) = Telugu_halanth
                  THEN "True" ELSE "False"
        ELSE "Continue"

\* the nested checks for up to three half-characters
RECURSIVE Telugu_scan_half(_, _, _)
Telugu_scan_half(label, st, left) ==
    IF left > 0 /\ Telugu_check_h_c(label, st.idx)
    THEN Telugu_scan_half(label, take(label, st, 2), left - 1)
    ELSE st

\* the full character; f_c_flag stays False after a digit or a sign
Telugu_scan_full(label, st) ==
    IF /\ Telugu_check_f_c(label, st.idx)
       /\ ~InList(Telugu_special_consonants, At(label, st.idx))
    THEN [take(label, st, 1) EXCEPT
              !.flag = ~InList(NFKD_each(Telugu_ank) \o NFKD_each(Telugu_chinh),
                                  At(label, st.idx))]
    ELSE st

\* the special matra that closes the group
Telugu_scan_special(label, st) ==
    IF st.idx < Len(label) /\ InList(Telugu_special_matra, At(label, st.idx))
    THEN take(label, st, 1)
    ELSE st

\* the diacritic, read only after a full character that takes one; the
\* sign e followed by the ai length mark is written as the sign ai
Telugu_scan_diacritics(label, st) ==
    IF Telugu_check_d_c(label, st.idx) /\ st.flag
    THEN IF /\ At(label, st.idx) = Telugu_e
            /\ st.idx + 1 < Len(label)
            /\ At(label, st.idx + 1) = Telugu_ai_length
         THEN Telugu_scan_special(label,
                  [st EXCEPT !.idx = @ + 2, !.grp = @ \o Telugu_ai])
         ELSE Telugu_scan_special(label, take(label, st, 1))
    ELSE st

\* One iteration of the while loop of label_transform starting at idx = t:
\* the index reached and the running group built.
Telugu_scan_iteration(label, t) ==
    IF InList(Telugu_special_consonants, At(label, t))
    THEN [idx |-> t + 1, grp |-> At(label, t), flag |-> FALSE]
    ELSE Telugu_scan_diacritics(label,
             Telugu_scan_full(label,
                 Telugu_scan_half(label, [idx |-> t, grp |-> <<>>, flag |-> FALSE], 3)))

\* ------------------------------------------------------------------------
\* The tokenizer instance: which of the seven classes was constructed.
\* ------------------------------------------------------------------------
Scripts == {"Hindi", "Gujarati", "Bengali", "Gurmukhi", "Tamil", "Malayalam", "Telugu"}

h_c_classes(s) ==
    CASE s = "Hindi" -> Hindi_h_c_classes
      [] s = "Gujarati" -> Gujarati_h_c_classes
      [] s = "Bengali" -> Bengali_h_c_classes
      [] s = "Gurmukhi" -> Gurmukhi_h_c_classes
      [] s = "Malayalam" -> Malayalam_h_c_classes
      [] s = "Telugu" -> Telugu_h_c_classes
      [] s = "Tamil" -> <<>>

f_c_classes(s) ==
    CASE s = "Hindi" -> Hindi_f_c_classes
      [] s = "Gujarati" -> Gujarati_f_c_classes
      [] s = "Bengali" -> Bengali_f_c_classes
      [] s = "Gurmukhi" -> Gurmukhi_f_c_classes
      [] s = "Malayalam" -> Malayalam_f_c_classes
      [] s = "Telugu" -> Telugu_f_c_classes
      [] s = "Tamil" -> Tamil_f_c_classes

d_classes(s) ==
    CASE s = "Hindi" -> Hindi_d_classes
      [] s = "Gujarati" -> Gujarati_d_classes
      [] s = "Bengali" -> Bengali_d_classes
      [] s = "Gurmukhi" -> Gurmukhi_d_classes
      [] s = "Malayalam" -> Malayalam_d_classes
      [] s = "Telugu" -> Telugu_d_classes
      [] s = "Tamil" -> Tamil_d_classes

\* the halant of the script (the pulli in Tamil, where it is a diacritic)
halanth(s) ==
    CASE s = "Hindi" -> Hindi_halanth
      [] s = "Gujarati" -> Gujarati_halanth
      [] s = "Bengali" -> Bengali_halanth
      [] s = "Gurmukhi" -> Gurmukhi_halanth
      [] s = "Malayalam" -> Malayalam_halanth
      [] s = "Telugu" -> Telugu_halanth
      [] s = "Tamil" -> Tamil_pulli

\* the attributes __init__ leaves in the tokenizer: the class tuples (the
\* index maps are these tuples read as functions, the reverse maps their
\* inverses), the halant, the threshold (the default 0.5, as the logit 0)
\* and max_grps
init_fields(s) ==
    [h_c_classes |-> h_c_classes(s), f_c_classes |-> f_c_classes(s),
     d_classes |-> d_classes(s), halanth |-> halanth(s),
     threshold |-> 0, max_grps |-> max_grps]

\* a method that rebuilds the diacritic classes without the sentinels
after_call_rebuilt(f) == [f EXCEPT !.d_classes = SubSeq(@, 3, Len(@))]

\* the attributes after a call of a method other than __init__ on a
\* tokenizer with attributes f: no method assigns to an attribute of self
\* or changes a list or dict held by one
after_call(f) == f

\* get_charset(): the class lists and the halant joined in a new list
\* (Tamil has no half-character list and returns no halant)
get_charset(s) ==
    IF s = "Tamil" THEN f_c_classes(s) \o d_classes(s)
    ELSE h_c_classes(s) \o f_c_classes(s) \o d_classes(s) \o <<halanth(s)>>

\* ------------------------------------------------------------------------
\* grp_sanity and label_transform: the loops, with the per-script bodies
\* ------------------------------------------------------------------------
sanity_grp(s, grps, k) ==
    CASE s = "Hindi" -> Hindi_sanity_grp(grps, k)
      [] s = "Gujarati" -> Gujarati_sanity_grp(grps, k)
      [] s = "Bengali" -> Bengali_sanity_grp(grps, k)
      [] s = "Gurmukhi" -> Gurmukhi_sanity_grp(grps, k)
      [] s = "Tamil" -> Tamil_sanity_grp(grps, k)
      [] s = "Malayalam" -> Malayalam_sanity_grp(grps, k)
      [] s = "Telugu" -> Telugu_sanity_grp(grps, k)

\* a validator that looks at the last group only
grp_sanity_last_only(s, grps, k) ==
    IF grps = <<>> THEN "True"
    ELSE LET v == sanity_grp(s, grps, Len(grps) - 1)
         IN  IF v = "Continue" THEN "True" ELSE v

\* for grp in grps: "True", "False", or the exception raised
RECURSIVE grp_sanity_from(_, _, _)
RECURSIVE grp_sanity_next(_, _, _, _)
grp_sanity_from(s, grps, k) ==
    IF k >= Len(grps) THEN "True"
    ELSE grp_sanity_next(s, grps, k, sanity_grp(s, grps, k))

\* after the loop body gave v for group k: go on to the next group or return
grp_sanity_next(s, grps, k, v) ==
    IF v = "Continue" THEN grp_sanity_from(s, grps, k + 1) ELSE v

\* a validator that accepts every tuple of groups
grp_sanity_accept_all(s, label, grps) == "True"

\* a validator that rejects the empty tuple of groups
grp_sanity_reject_empty(s, label, grps) ==
    IF grps = <<>> THEN "False" ELSE grp_sanity_from(s, grps, 0)

\* grp_sanity(label, grps); the label is only printed
grp_sanity(s, label, grps) == grp_sanity_from(s, grps, 0)

scan_iteration(s, label, t) ==
    CASE s = "Hindi" -> Hindi_scan_iteration(label, t)
      [] s = "Gujarati" -> Gujarati_scan_iteration(label, t)
      [] s = "Bengali" -> Bengali_scan_iteration(label, t)
      [] s = "Gurmukhi" -> Gurmukhi_scan_iteration(label, t)
      [] s = "Tamil" -> Tamil_scan_iteration(label, t)
      [] s = "Malayalam" -> Malayalam_scan_iteration(label, t)
      [] s = "Telugu" -> Telugu_scan_iteration(label, t)

\* grps = grps + (running_grp, ); Malayalam and Telugu skip an empty group
append_grp(s, grps, running_grp) ==
    IF s \in {"Malayalam", "Telugu"} /\ running_grp = <<>> THEN grps
    ELSE Append(grps, running_grp)

\* a return that keeps the groups before the first one that fails
transform_return_prefix(s, label, grps) ==
    LET good == {n \in 0..Len(grps) : grp_sanity(s, label, SubSeq(grps, 1, n)) = "True"}
        n == CHOOSE m \in good : \A o \in good : o <= m
    IN  [grps |-> SubSeq(grps, 1, n), exc |-> "none"]

\* grps if self.grp_sanity(label, grps) else (), v being what grp_sanity gave
grps_if_sane(grps, v) ==
    IF v = "True" THEN [grps |-> grps, exc |-> "none"]
    ELSE IF v = "False" THEN [grps |-> <<>>, exc |-> "none"]
    ELSE [grps |-> <<>>, exc |-> v]

\* the value label_transform returns once the scan loop has ended with grps
transform_return(s, label, grps) == grps_if_sane(grps, grp_sanity(s, label, grps))

\* the while loop from idx with the groups built so far
RECURSIVE scan_loop(_, _, _, _)
RECURSIVE scan_next(_, _, _, _, _)
scan_loop(s, label, idx, grps) ==
    IF idx >= Len(label) THEN transform_return(s, label, grps)
    ELSE scan_next(s, label, idx, grps, scan_iteration(s, label, idx))

\* the end of an iteration it that started at idx: return () when nothing
\* was consumed, else add the group and loop
scan_next(s, label, idx, grps, it) ==
    IF it.idx = idx THEN [grps |-> <<>>, exc |-> "none"]
    ELSE scan_loop(s, label, it.idx, append_grp(s, grps, it.grp))

\* label_transform(label): the tuple returned and the exception raised, if any
label_transform(s, label) == scan_loop(s, label, 0, <<>>)

\* ------------------------------------------------------------------------
\* Hindi: grp_class_encoder, label_encoder, _decode_grp
\* A diacritic vector is modelled as the set of the class indices whose
\* entry is 1.
\* ------------------------------------------------------------------------
\* the for loop of grp_class_encoder from character i; st holds the targets
RECURSIVE Hindi_encoder_walk(_, _, _)
Hindi_encoder_walk(grp, i, st) ==
    IF i >= Len(grp)
    THEN IF st.f = -1 \/ Cardinality(st.d) > 2
         THEN [st EXCEPT !.exc = "AssertionError"]
         ELSE st
    ELSE LET char == At(grp, i)
         IN  IF /\ InMap(Hindi_h_c_classes, char)
                /\ i + 1 < Len(grp)
                /\ At(grp, i + 1) = Hindi_halanth
             THEN IF st.h[1] = blank_id
                  THEN Hindi_encoder_walk(grp, i + 1,
                           [st EXCEPT !.h = <<RevMap(Hindi_h_c_classes, char), st.h[2]>>])
                  ELSE Hindi_encoder_walk(grp, i + 1,
                           [st EXCEPT !.h = <<RevMap(Hindi_h_c_classes, char), st.h[1]>>])
             ELSE IF InMap(Hindi_f_c_classes, char)
             THEN IF st.f # -1
                  THEN [st EXCEPT !.exc = "AssertionError"]
                  ELSE Hindi_encoder_walk(grp, i + 1,
                           [st EXCEPT !.f = RevMap(Hindi_f_c_classes, char)])
             ELSE IF InMap(Hindi_d_classes, char)
             THEN IF RevMap(Hindi_d_classes, char) \in st.d
                  THEN [st EXCEPT !.exc = "AssertionError"]
                  ELSE Hindi_encoder_walk(grp, i + 1,
                           [st EXCEPT !.d = st.d \cup {RevMap(Hindi_d_classes, char)}])
             ELSE IF char = Hindi_halanth /\ st.cntr < 2
             THEN Hindi_encoder_walk(grp, i + 1, [st EXCEPT !.cntr = st.cntr + 1])
             ELSE [st EXCEPT !.exc = "Exception"]

\* an encoder that fills the ranks from the far end of the group
Hindi_grp_class_encoder_swapped(grp) ==
    LET t == Hindi_encoder_walk(grp, 0,
                 [h |-> <<blank_id, blank_id>>, f |-> -1, d |-> {}, cntr |-> 0,
                  exc |-> "none"])
    IN  [t EXCEPT !.h = <<t.h[2], t.h[1]>>]

\* grp_class_encoder(grp): h[1] is h_c_1_target (the half-character joined
\* with the full character), h[2] is h_c_2_target
Hindi_grp_class_encoder(grp) ==
    Hindi_encoder_walk(grp, 0,
        [h |-> <<blank_id, blank_id>>, f |-> -1, d |-> {}, cntr |-> 0, exc |-> "none"])

\* a diacritic row that no group overwrites: d_target[:, pad_id] = 1 on the
\* zeros, and d_target[eos_idx, eos_id] = 1 in the row after the last group
pad_row_unset == {}
pad_row == {pad_id}
eos_row == pad_row \cup {eos_id}

\* the targets after the loop over the groups: all is what label_transform
\* returned, cls what grp_class_encoder gave for each group kept
Hindi_label_targets(all, cls) ==
    LET short == Len(all) < max_grps
        g == IF short THEN all ELSE SubSeq(all, 1, max_grps)
        bad == {j \in 1..Len(g) : cls[j].exc # "none"}
        first_bad == CHOOSE j \in bad : \A k \in bad : j <= k
        head(j, r) == IF j < Len(g) THEN cls[j + 1].h[r]
                      ELSE IF short /\ j = Len(all) THEN eos_id ELSE pad_id
        full(j) == IF j < Len(g) THEN cls[j + 1].f
                   ELSE IF short /\ j = Len(all) THEN eos_id ELSE pad_id
        row(j) == IF j < Len(g) THEN cls[j + 1].d
                  ELSE IF short /\ j = Len(all) THEN eos_row ELSE pad_row
    IN  [h   |-> [r \in 1..2 |-> [j \in 0..(max_grps - 1) |-> head(j, r)]],
         f   |-> [j \in 0..(max_grps - 1) |-> full(j)],
         d   |-> [j \in 0..(max_grps - 1) |-> row(j)],
         n   |-> Len(g),
         exc |-> IF bad = {} THEN "none" ELSE cls[first_bad].exc]

\* an encoder that always keeps the last position for EOS
Hindi_encode_grps_keep_eos(all) ==
    Hindi_label_targets(SubSeq(all, 1, Min(Len(all), max_grps - 1)),
        [j \in 1..Min(Len(all), max_grps - 1) |-> Hindi_grp_class_encoder(all[j])])

\* for idx, grp in enumerate(grps): grp_class_encoder(grp), over grps or
\* over grps[:max_grps]
Hindi_encode_grps(all) ==
    Hindi_label_targets(all,
        [j \in 1..Min(Len(all), max_grps) |-> Hindi_grp_class_encoder(all[j])])

\* an encoder that takes the label as one group without validating it
Hindi_label_encoder_unchecked(label) ==
    Hindi_encode_grps(IF label = <<>> THEN <<>> ELSE <<label>>)

\* label_encoder(label): the targets by 0-based position, the number of
\* groups returned and the exception a group raised
Hindi_label_encoder(label) == Hindi_encode_grps(label_transform("Hindi", label).grps)

\* _decode_grp with the half-characters emitted rank-1 first
Hindi_decode_grp_lowest_first(h_pred, f_pred, d_pred, d_max) ==
    LET half(r) == IF /\ Hindi_h_c_classes[h_pred[r] + 1] # BLANK
                      /\ Hindi_h_c_classes[h_pred[r] + 1] # PAD
                   THEN Hindi_h_c_classes[h_pred[r] + 1] \o Hindi_halanth
                   ELSE <<>>
        d1 == IF d_max[0] # 0 THEN Hindi_d_classes[d_pred[0] + 1] ELSE <<>>
        d2 == IF d_max[1] # 0 THEN Hindi_d_classes[d_pred[1] + 1] ELSE <<>>
        nukta == NFKD(<<2364>>)
        anusvara == NFKD(<<2306>>)
        visarga == NFKD(<<2307>>)
        d == IF IsSubstr(d1, nukta) THEN d1 \o d2
             ELSE IF IsSubstr(d2, nukta) THEN d2 \o d1
             ELSE IF IsSubstr(d1, anusvara) THEN d2 \o d1
             ELSE IF IsSubstr(d2, anusvara) THEN d1 \o d2
             ELSE IF IsSubstr(d1, visarga) THEN d2 \o d1
             ELSE IF IsSubstr(d2, visarga) THEN d1 \o d2
             ELSE d1
        grp == half(1) \o half(2) \o Hindi_f_c_classes[f_pred + 1] \o d
    IN  Remove(Remove(grp, BLANK), PAD)

\* _decode_grp: h_pred[r] is h_c_r_pred; d_pred and d_max are the two
\* entries torch.topk returned, by 0-based position
Hindi_decode_grp(h_pred, f_pred, d_pred, d_max) ==
    LET half(r) == IF /\ Hindi_h_c_classes[h_pred[r] + 1] # BLANK
                      /\ Hindi_h_c_classes[h_pred[r] + 1] # PAD
                   THEN Hindi_h_c_classes[h_pred[r] + 1] \o Hindi_halanth
                   ELSE <<>>
        d1 == IF d_max[0] # 0 THEN Hindi_d_classes[d_pred[0] + 1] ELSE <<>>
        d2 == IF d_max[1] # 0 THEN Hindi_d_classes[d_pred[1] + 1] ELSE <<>>
        nukta == NFKD(<<2364>>)
        anusvara == NFKD(<<2306>>)
        visarga == NFKD(<<2307>>)
        d == IF IsSubstr(d1, nukta) THEN d1 \o d2
             ELSE IF IsSubstr(d2, nukta) THEN d2 \o d1
             ELSE IF IsSubstr(d1, anusvara) THEN d2 \o d1
             ELSE IF IsSubstr(d2, anusvara) THEN d1 \o d2
             ELSE IF IsSubstr(d1, visarga) THEN d2 \o d1
             ELSE IF IsSubstr(d2, visarga) THEN d1 \o d2
             ELSE d1
        grp == half(2) \o half(1) \o Hindi_f_c_classes[f_pred + 1] \o d
    IN  Remove(Remove(grp, BLANK), PAD)

\* ------------------------------------------------------------------------
\* Malayalam: grp_class_encoder, label_encoder, _decode_grp
\* ------------------------------------------------------------------------
\* the while loop of grp_class_encoder from character i
RECURSIVE Malayalam_encoder_walk(_, _, _)
Malayalam_encoder_walk(grp, i, st) ==
    IF i >= Len(grp)
    THEN IF Cardinality(st.d) > 3 THEN [st EXCEPT !.exc = "AssertionError"] ELSE st
    ELSE LET char == At(grp, i)
             two == char \o At(grp, i + 1)
         IN  IF Malayalam_check_h_c(grp, i) /\ st.cntr < 3
             THEN LET k == RevMap(Malayalam_h_c_classes, char)
                  IN  IF st.h[1] = blank_id
                      THEN Malayalam_encoder_walk(grp, i + 1,
                               [st EXCEPT !.h = <<k, st.h[2], st.h[3]>>])
                      ELSE IF st.h[2] = blank_id
                      THEN Malayalam_encoder_walk(grp, i + 1,
                               [st EXCEPT !.h = <<k, st.h[1], st.h[3]>>])
                      ELSE Malayalam_encoder_walk(grp, i + 1,
                               [st EXCEPT !.h = <<k, st.h[1], st.h[2]>>])
             ELSE IF Malayalam_check_f_c(grp, i)
             THEN IF st.f # blank_id
                  THEN [st EXCEPT !.exc = "AssertionError"]
                  ELSE Malayalam_encoder_walk(grp, i + 1,
                           [st EXCEPT !.f = RevMap(Malayalam_f_c_classes, char)])
             ELSE IF i + 1 < Len(grp) /\ char = Malayalam_e /\ At(grp, i + 1) = Malayalam_e
             THEN IF RevMap(Malayalam_d_classes, Malayalam_ai) \in st.d
                  THEN [st EXCEPT !.exc = "AssertionError"]
                  ELSE Malayalam_encoder_walk(grp, i + 2,
                           [st EXCEPT !.d = st.d \cup {RevMap(Malayalam_d_classes, <<3400>>)}])
             ELSE IF i + 1 < Len(grp) /\ char = Malayalam_u /\ At(grp, i + 1) = Malayalam_halanth
             THEN IF RevMap(Malayalam_d_classes, two) \in st.d
                  THEN [st EXCEPT !.exc = "AssertionError"]
                  ELSE Malayalam_encoder_walk(grp, i + 2,
                           [st EXCEPT !.d = st.d \cup {RevMap(Malayalam_d_classes, two)}])
             ELSE IF Malayalam_check_d_c(grp, i)
             THEN IF RevMap(Malayalam_d_classes, char) \in st.d
                  THEN [st EXCEPT !.exc = "AssertionError"]
                  ELSE Malayalam_encoder_walk(grp, i + 1,
                           [st EXCEPT !.d = st.d \cup {RevMap(Malayalam_d_classes, char)}])
             ELSE IF /\ char = Malayalam_halanth
                     /\ st.cntr < 3
                     /\ At(grp, i - 1) # Malayalam_u
             THEN Malayalam_encoder_walk(grp, i + 1, [st EXCEPT !.cntr = st.cntr + 1])
             ELSE [st EXCEPT !.exc = "Exception"]

\* an encoder whose diacritic row keeps the PAD bit the targets start with
Malayalam_grp_class_encoder_pad(grp) ==
    LET t == Malayalam_encoder_walk(grp, 0,
                 [h |-> <<blank_id, blank_id, blank_id>>, f |-> blank_id, d |-> {},
                  cntr |-> 0, exc |-> "none"])
    IN  [t EXCEPT !.d = @ \cup {pad_id}]

\* grp_class_encoder(grp): h[r] is h_c_r_target
Malayalam_grp_class_encoder(grp) ==
    Malayalam_encoder_walk(grp, 0,
        [h |-> <<blank_id, blank_id, blank_id>>, f |-> blank_id, d |-> {},
         cntr |-> 0, exc |-> "none"])

\* the targets after the loop over the groups: all is what label_transform
\* returned, cls what grp_class_encoder gave for each group kept
Malayalam_label_targets(all, cls) ==
    LET short == Len(all) < max_grps
        g == IF short THEN all ELSE SubSeq(all, 1, max_grps)
        bad == {j \in 1..Len(g) : cls[j].exc # "none"}
        first_bad == CHOOSE j \in bad : \A k \in bad : j <= k
        head(j, r) == IF j < Len(g) THEN cls[j + 1].h[r]
                      ELSE IF short /\ j = Len(all) THEN eos_id ELSE pad_id
        full(j) == IF j < Len(g) THEN cls[j + 1].f
                   ELSE IF short /\ j = Len(all) THEN eos_id ELSE pad_id
        row(j) == IF j < Len(g) THEN cls[j + 1].d
                  ELSE IF short /\ j = Len(all) THEN eos_row ELSE pad_row
    IN  [h   |-> [r \in 1..3 |-> [j \in 0..(max_grps - 1) |-> head(j, r)]],
         f   |-> [j \in 0..(max_grps - 1) |-> full(j)],
         d   |-> [j \in 0..(max_grps - 1) |-> row(j)],
         n   |-> Len(g),
         exc |-> IF bad = {} THEN "none" ELSE cls[first_bad].exc]

\* an encoder that always keeps the last position for EOS
Malayalam_encode_grps_keep_eos(all) ==
    Malayalam_label_targets(SubSeq(all, 1, Min(Len(all), max_grps - 1)),
        [j \in 1..Min(Len(all), max_grps - 1) |-> Malayalam_grp_class_encoder(all[j])])

\* for idx, grp in enumerate(grps): grp_class_encoder(grp), over grps or
\* over grps[:max_grps]
Malayalam_encode_grps(all) ==
    Malayalam_label_targets(all,
        [j \in 1..Min(Len(all), max_grps) |-> Malayalam_grp_class_encoder(all[j])])

\* label_encoder(label): the targets by 0-based position, the number of
\* groups returned and the exception a group raised
Malayalam_label_encoder(label) == Malayalam_encode_grps(label_transform("Malayalam", label).grps)

\* _decode_grp: h_pred[r] is h_c_r_pred; d_pred and d_max are the three
\* entries torch.topk returned, by 0-based position
Malayalam_decode_grp(h_pred, f_pred, d_pred, d_max) ==
    LET name(r) == Malayalam_h_c_classes[h_pred[r] + 1]
        half3 == IF name(3) # BLANK /\ name(2) # PAD
                 THEN name(3) \o Malayalam_halanth ELSE <<>>
        half2 == IF name(2) # BLANK /\ name(2) # PAD
                 THEN name(2) \o Malayalam_halanth ELSE <<>>
        half1 == IF name(1) # BLANK /\ name(1) # PAD
                 THEN name(1) \o Malayalam_halanth ELSE <<>>
        d1 == IF d_max[0] # 0 THEN Malayalam_d_classes[d_pred[0] + 1] ELSE <<>>
        d2 == IF d_max[1] # 0 THEN Malayalam_d_classes[d_pred[1] + 1] ELSE <<>>
        d3 == IF d_max[2] # 0 THEN Malayalam_d_classes[d_pred[2] + 1] ELSE <<>>
        isaa(x) == IsSubstr(x, Malayalam_aa)
        am_ah == NFKD(<<3330>> \o <<3331>>)
        isee(x) == IsSubstr(x, NFKD(<<3398>> \o <<3399>>))
        e == <<3398>>
        au == <<3415>>
        d == IF IsSubstr(d1, am_ah)
             THEN      IF isaa(d2) /\ isee(d3) THEN d3 \o d2 \o d1
                  ELSE IF isaa(d3) /\ isee(d2) THEN d2 \o d3 \o d1
                  ELSE IF d2 = e /\ d3 = au THEN d2 \o d3 \o d1
                  ELSE IF d3 = e /\ d2 = au THEN d3 \o d2 \o d1
                  ELSE IF d3 = <<>> \/ d2 = <<>> THEN d2 \o d3 \o d1
                  ELSE d1
             ELSE IF IsSubstr(d2, am_ah)
             THEN      IF isaa(d1) /\ isee(d3) THEN d3 \o d1 \o d2
                  ELSE IF isaa(d3) /\ isee(d1) THEN d1 \o d3 \o d2
                  ELSE IF d1 = e /\ d3 = au THEN d1 \o d3 \o d2
                  ELSE IF d3 = e /\ d1 = au THEN d3 \o d1 \o d2
                  ELSE IF d3 = <<>> \/ d1 = <<>> THEN d1 \o d3 \o d2
                  ELSE d1
             ELSE IF IsSubstr(d3, am_ah)
             THEN      IF isaa(d1) /\ isee(d2) THEN d2 \o d1 \o d3
                  ELSE IF isaa(d2) /\ isee(d1) THEN d1 \o d2 \o d3
                  ELSE IF d1 = e /\ d2 = au THEN d1 \o d2 \o d3
                  ELSE IF d2 = e /\ d1 = au THEN d2 \o d1 \o d3
                  ELSE IF d2 = <<>> \/ d1 = <<>> THEN d1 \o d2 \o d3
                  ELSE d1
             ELSE IF d1 = <<>>
             THEN      IF isaa(d2) /\ isee(d3) THEN d3 \o d2
                  ELSE IF isaa(d3) /\ isee(d2) THEN d2 \o d3
                  ELSE IF d2 = e /\ d3 = au THEN d2 \o d3
                  ELSE IF d3 = e /\ d2 = au THEN d3 \o d2
                  ELSE IF d3 = <<>> \/ d2 = <<>> THEN d2 \o d3
                  ELSE d2
             ELSE IF d2 = <<>>
             THEN      IF isaa(d1) /\ isee(d3) THEN d3 \o d1
                  ELSE IF isaa(d3) /\ isee(d1) THEN d1 \o d3
                  ELSE IF d1 = e /\ d3 = au THEN d2 \o d3
                  ELSE IF d3 = e /\ d1 = au THEN d3 \o d1
                  ELSE IF d3 = <<>> \/ d1 = <<>> THEN d1 \o d3
                  ELSE d1
             ELSE IF d3 = <<>>
             THEN      IF isaa(d2) /\ isee(d1) THEN d1 \o d2
                  ELSE IF isaa(d1) /\ isee(d2) THEN d2 \o d1
                  ELSE IF d2 = e /\ d1 = au THEN d2 \o d1
                  ELSE IF d1 = e /\ d2 = au THEN d1 \o d2
                  ELSE IF d1 = <<>> \/ d2 = <<>> THEN d2 \o d1
                  ELSE d2
             ELSE d1
        grp == half3 \o half2 \o half1 \o Malayalam_f_c_classes[f_pred + 1] \o d
    IN  Remove(Remove(grp, BLANK), PAD)

\* ------------------------------------------------------------------------
\* decode (Hindi, Malayalam)
\* Logits are modelled by position as functions from class index to an
\* integer score.
\* ------------------------------------------------------------------------
\* torch.argmax over the class dimension (first maximal index)
argmax(row) ==
    CHOOSE c \in DOMAIN row :
        /\ \A e \in DOMAIN row : row[e] <= row[c]
        /\ \A e \in DOMAIN row : e < c => row[e] < row[c]

\* sigmoid(x) > threshold at the default threshold 0.5, that is x > 0; the
\* classes of a row whose mask bit is set
d_bin_mask(row) == {c \in DOMAIN row : row[c] > 0}

\* the c-th smallest (from 0) element of a set of integers
Nth(S, c) == CHOOSE x \in S : Cardinality({y \in S : y < x}) = c

\* torch.topk(mask.int(), k): the (values, indices) pairs it may return for
\* a row of n classes with the bits of mask set.  Equal values may come in
\* any order.  An index whose value is 0 is never read by _decode_grp, so
\* the smallest unset classes stand for it.
TopK(mask, n, k) ==
    LET m == Min(k, Cardinality(mask))
        unset == (0..(n - 1)) \ mask
        picks == {q \in [0..(m - 1) -> mask] :
                     \A a, b \in 0..(m - 1) : a # b => q[a] # q[b]}
    IN  {[max  |-> [i \in 0..(k - 1) |-> IF i < m THEN 1 ELSE 0],
          pred |-> [i \in 0..(k - 1) |-> IF i < m THEN q[i] ELSE Nth(unset, i - m)]] :
            q \in picks}

\* the choices of torch.topk for the rows of positions 0..(j - 1)
RECURSIVE TopKRows(_, _, _, _)
TopKRows(d_logits, n, k, j) ==
    IF j = 0 THEN {<<>>}
    ELSE {[i \in 0..(j - 1) |-> IF i = j - 1 THEN t ELSE tk[i]] :
             tk \in TopKRows(d_logits, n, k, j - 1),
             t \in TopK(d_bin_mask(d_logits[j - 1]), n, k)}

\* the loop over the groups of one batch item, from position j
RECURSIVE Hindi_decode_from(_, _, _)
Hindi_decode_from(logits, tk, j) ==
    IF j >= max_grps THEN <<>>
    ELSE LET grp == Hindi_decode_grp([r \in 1..2 |-> argmax(logits.h[r][j])],
                                     argmax(logits.f[j]), tk[j].pred, tk[j].max)
         IN  IF IsSubstr(EOS, grp) THEN <<>>
             ELSE grp \o Hindi_decode_from(logits, tk, j + 1)

\* decode(logits) for a batch of one, with tk the outcome of torch.topk
Hindi_decode(logits, tk) == Hindi_decode_from(logits, tk, 0)

RECURSIVE Malayalam_decode_from(_, _, _)
Malayalam_decode_from(logits, tk, j) ==
    IF j >= max_grps THEN <<>>
    ELSE LET grp == Malayalam_decode_grp([r \in 1..3 |-> argmax(logits.h[r][j])],
                                         argmax(logits.f[j]), tk[j].pred, tk[j].max)
         IN  IF IsSubstr(EOS, grp) THEN <<>>
             ELSE grp \o Malayalam_decode_from(logits, tk, j + 1)

Malayalam_decode(logits, tk) == Malayalam_decode_from(logits, tk, 0)

\* the tokenizers that have label_encoder and decode
Codecs == {"Hindi", "Malayalam"}

label_encoder(s, label) ==
    IF s = "Hindi" THEN Hindi_label_encoder(label) ELSE Malayalam_label_encoder(label)

\* k of torch.topk: the diacritics of one group
topk_k(s) == IF s = "Hindi" THEN 2 ELSE 3

decode(s, logits, tk) ==
    IF s = "Hindi" THEN Hindi_decode(logits, tk) ELSE Malayalam_decode(logits, tk)

\* _decode_grp of the tokenizer
decode_grp(s, h_pred, f_pred, d_pred, d_max) ==
    IF s = "Hindi" THEN Hindi_decode_grp(h_pred, f_pred, d_pred, d_max)
    ELSE Malayalam_decode_grp(h_pred, f_pred, d_pred, d_max)

\* logits that exactly reproduce the targets enc of label_encoder: one-hot
\* scores for the half- and full-character heads, a positive score exactly
\* for the diacritic bits that are set
ExactLogits(s, enc) ==
    [h |-> [r \in DOMAIN enc.h |->
               [j \in 0..(max_grps - 1) |->
                   [c \in 0..(Len(h_c_classes(s)) - 1) |->
                       IF c = enc.h[r][j] THEN 1 ELSE 0]]],
     f |-> [j \in 0..(max_grps - 1) |->
               [c \in 0..(Len(f_c_classes(s)) - 1) |-> IF c = enc.f[j] THEN 1 ELSE 0]],
     d |-> [j \in 0..(max_grps - 1) |->
               [c \in 0..(Len(d_classes(s)) - 1) |-> IF c \in enc.d[j] THEN 1 ELSE -1]]]

\* ------------------------------------------------------------------------
\* Inputs
\* ------------------------------------------------------------------------
\* representative code points of every character class of each script
Alphabet(s) ==
    CASE s = "Hindi" -> {2325, 2326, 2309, 2381, 2366, 2305, 2306, 120}
      [] s = "Gujarati" -> {2709, 2693, 2765, 2750, 2690, 120}
      [] s = "Bengali" -> {2453, 2437, 2509, 2494, 2434, 120}
      [] s = "Gurmukhi" -> {2581, 2608, 2620, 2637, 2622, 2672, 120}
      [] s = "Tamil" -> {2965, 2949, 3021, 3006, 3007, 120}
      [] s = "Malayalam" -> {3349, 3451, 3405, 3393, 3398, 3390, 3330, 3431, 120}
      [] s = "Telugu" -> {3093, 3127, 3121, 3149, 3134, 3142, 3158, 3074, 120}

\* the consonant used in the half-character runs (the subjoined RA in Gurmukhi)
RunConsonant(s) ==
    CASE s = "Hindi" -> <<2325>>
      [] s = "Gujarati" -> <<2709>>
      [] s = "Bengali" -> <<2453>>
      [] s = "Gurmukhi" -> <<2608>>
      [] s = "Tamil" -> <<2965>>
      [] s = "Malayalam" -> <<3349>>
      [] s = "Telugu" -> <<3093>>

\* one half-character unit as label_transform reads it
HalfUnit(s) ==
    IF s = "Gurmukhi" THEN halanth(s) \o RunConsonant(s) ELSE RunConsonant(s) \o halanth(s)

RECURSIVE HalfRun(_, _)
HalfRun(s, n) == IF n = 0 THEN <<>> ELSE HalfUnit(s) \o HalfRun(s, n - 1)

Strings(A, n) == UNION {[1..m -> A] : m \in 0..n}

\* the special-atomic units written with more than one code point
LongSpecials(s) ==
    IF s = "Telugu"
    THEN {Telugu_special_consonants[k] : k \in 1..Len(Telugu_special_consonants)}
            \ Strings(Alphabet(s), 1)
    ELSE {}

\* two full characters of a tokenizer that has label_encoder
GroupChars(s) ==
    IF s = "Hindi" THEN {2325, 2309}
    ELSE IF s = "Malayalam" THEN {3349, 3431}
    ELSE {}

\* labels of max_grps + 1 groups of one full character each
GroupRuns(s) == [1..(max_grps + 1) -> GroupChars(s)]

\* two consonants of a tokenizer that has label_encoder
HalfChars(s) ==
    IF s = "Hindi" THEN {2325, 2326}
    ELSE IF s = "Malayalam" THEN {3349, 3350}
    ELSE {}

\* the half-characters q[1] .. q[n], each followed by the halant
RECURSIVE Halves(_, _, _)
Halves(s, q, n) ==
    IF n = 0 THEN <<>> ELSE Halves(s, q, n - 1) \o <<q[n]>> \o halanth(s)

\* groups of one to three half-characters, chosen from two consonants,
\* before a full character
MixedRuns(s) ==
    {Halves(s, q, n) \o RunConsonant(s) : q \in [1..3 -> HalfChars(s)], n \in 1..3}

\* the pieces of a group: in Gurmukhi a consonant, the nukta, the halant
\* with the subjoined RA, and two diacritics; in Malayalam a consonant, the
\* vowel signs E, EE, AA, the AU length mark, and U with the halant
Units(s) ==
    IF s = "Gurmukhi" THEN {<<2581>>, <<2620>>, <<2637, 2608>>, <<2622>>, <<2672>>}
    ELSE IF s = "Malayalam"
    THEN {<<3349>>, <<3398>>, <<3399>>, <<3390>>, <<3415>>, <<3393, 3405>>}
    ELSE {}

\* labels of at most MaxLen + 1 pieces
UnitLabels(s) == {Join(q) : q \in Strings(Units(s), MaxLen + 1)}

\* labels: every string of at most MaxLen code points of the alphabet, the
\* runs of up to MaxRun half-character units around one full character,
\* the long special-atomic units with up to MaxLen - 2 characters around,
\* the labels of more than max_grps groups, and the runs of different
\* half-characters, and the labels built from the pieces of a group
Labels(s) ==
    Strings(Alphabet(s), MaxLen)
    \cup {p \o HalfRun(s, n) \o RunConsonant(s) :
             n \in 1..MaxRun, p \in {<<>>, RunConsonant(s)}}
    \cup {p \o u \o t : u \in LongSpecials(s),
                         p \in Strings(Alphabet(s), 1),
                         t \in Strings(Alphabet(s), MaxLen - 2)}
    \cup GroupRuns(s)
    \cup MixedRuns(s)
    \cup UnitLabels(s)

\* the tuples of groups grp_sanity is called with directly: the label as
\* one group or cut in two non-empty groups, and the empty tuple
DirectGroups(l) ==
    {<<>>} \cup (IF l = <<>> THEN {} ELSE {<<l>>})
           \cup {<<SubSeq(l, 1, k), SubSeq(l, k + 1, Len(l))>> : k \in 1..(Len(l) - 1)}

\* the number of half-character heads
Ranks(s) == IF s = "Hindi" THEN 2 ELSE 3

\* class indices the heads predict in the logits given to decode: EOS, PAD,
\* index 2 and a letter
HeadPreds == {eos_id, pad_id, blank_id, 3}
FullPreds == {eos_id, pad_id, blank_id, 3}

\* class indices of the predictions given to _decode_grp: PAD, BLANK and
\* two consonants for a half-character, PAD and a letter for the full one
GrpHeadPreds == {pad_id, blank_id, 3, 4}
GrpFullPreds == {pad_id, 3}

\* diacritic classes selected for a group: PAD, vowel signs, and the signs
\* the ordering rules of _decode_grp name
DPreds(s) ==
    IF s = "Hindi" THEN {0, 1, 2, 3, 15, 17} ELSE {1, 2, 9, 10, 11, 12}

\* the arguments _decode_grp is called with directly; d_pred and d_max are
\* what torch.topk gives for a selection of at most k classes
GrpPreds(s) ==
    {[h |-> h, f |-> f, d_pred |-> t.pred, d_max |-> t.max] :
        h \in [1..Ranks(s) -> GrpHeadPreds],
        f \in GrpFullPreds,
        t \in UNION {TopK(m, Len(d_classes(s)), topk_k(s)) :
                        m \in {x \in SUBSET DPreds(s) : Cardinality(x) <= topk_k(s)}}}

\* a row of scores with 1 at class c and 0 elsewhere
OneHot(n, c) == [e \in 0..(n - 1) |-> IF e = c THEN 1 ELSE 0]

\* a diacritic row with no score above the threshold
NoneRow(s) == [c \in 0..(Len(d_classes(s)) - 1) |-> -1]

\* diacritic rows for decode: three (Hindi) or four (Malayalam) classes
\* score -1, 1 or 2, every other class -1
DAct(s) == IF s = "Hindi" THEN {2, 3, 15} ELSE {2, 10, 11, 12}
DRows(s) ==
    {[c \in 0..(Len(d_classes(s)) - 1) |-> IF c \in DAct(s) THEN v[c] ELSE -1] :
        v \in [DAct(s) -> {-1, 1, 2}]}

\* the predictions of one position: every head EOS, or a lone consonant
PlainHeads(s) ==
    {[h |-> [r \in 1..Ranks(s) |-> eos_id], f |-> eos_id],
     [h |-> [r \in 1..Ranks(s) |-> blank_id], f |-> 3]}

\* logits whose argmax at position j is hd[j] and whose diacritic row at
\* position j is row[j]
LogitsOf(s, hd, row) ==
    [h |-> [r \in 1..Ranks(s) |->
               [j \in 0..(max_grps - 1) |-> OneHot(Len(h_c_classes(s)), hd[j].h[r])]],
     f |-> [j \in 0..(max_grps - 1) |-> OneHot(Len(f_c_classes(s)), hd[j].f)],
     d |-> row]

\* the logits decode is called with directly: one position with any
\* predictions of the heads among plain positions and no diacritic, or a
\* lone consonant with any of the diacritic rows before EOS
HeadLogits(s) ==
    {LogitsOf(s, [j \in 0..(max_grps - 1) |->
                    IF j = p THEN [h |-> h, f |-> f] ELSE pl[j]],
                 [j \in 0..(max_grps - 1) |-> NoneRow(s)]) :
        p \in 0..(max_grps - 1),
        h \in [1..Ranks(s) -> HeadPreds],
        f \in FullPreds,
        pl \in [0..(max_grps - 1) -> PlainHeads(s)]}

RowLogits(s) ==
    {LogitsOf(s, [j \in 0..(max_grps - 1) |->
                    [h |-> [r \in 1..Ranks(s) |-> blank_id],
                     f |-> IF j = 0 THEN 3 ELSE eos_id]],
                 [j \in 0..(max_grps - 1) |-> IF j = 0 THEN row ELSE NoneRow(s)]) :
        row \in DRows(s)}

\* ------------------------------------------------------------------------
\* State
\* ------------------------------------------------------------------------
VARIABLES
    script,     \* the tokenizer class constructed
    label,      \* the label the operation is called with
    op,         \* the operation called: "none" before the call
    pc,         \* "run" while label_transform scans, "done" after a return
    idx,        \* label_transform: the scan index
    grps,       \* label_transform: the groups built so far
    result,     \* label_transform: the tuple returned
    raised,     \* the exception the operation ended with, or "none"
    arg,        \* grp_sanity called directly: its grps argument
    sane,       \* grp_sanity called directly: "True" / "False"
    enc,        \* label_encoder: the targets and the group count returned
    dec,        \* decode: the label returned for the one batch item;
                \* _decode_grp called directly: the group returned
    logits,     \* decode: the logits of the one batch item
    tk,         \* decode: what torch.topk returned, by position
    pred,       \* _decode_grp called directly: its arguments
    fields,     \* the attributes of the tokenizer
    charset     \* get_charset: the list returned

vars ==
    <<script, label, op, pc, idx, grps, result, raised, arg, sane, enc, dec,
      logits, tk, pred, fields, charset>>

NoTargets == [h |-> <<>>, f |-> <<>>, d |-> <<>>, n |-> 0, exc |-> "none"]
NoLogits == [h |-> <<>>, f |-> <<>>, d |-> <<>>]
NoPred == [h |-> <<>>, f |-> 0, d_pred |-> <<>>, d_max |-> <<>>]

Init ==
    /\ script \in Scripts
    /\ label \in Labels(script)
    /\ op = "none"
    /\ pc = "run"
    /\ idx = 0
    /\ grps = <<>>
    /\ result = <<>>
    /\ raised = "none"
    /\ arg = <<>>
    /\ sane = "none"
    /\ enc = NoTargets
    /\ dec = <<>>
    /\ logits = NoLogits
    /\ tk = <<>>
    /\ pred = NoPred
    /\ fields = init_fields(script)
    /\ charset = <<>>

Scanning == op \in {"none", "label_transform"} /\ pc = "run"

\* one iteration of the while loop of label_transform that consumes characters
ScanStep ==
    /\ Scanning
    /\ idx < Len(label)
    /\ \E it \in {scan_iteration(script, label, idx)} :
           /\ it.idx # idx
           /\ idx' = it.idx
           /\ grps' = append_grp(script, grps, it.grp)
    /\ op' = "label_transform"
    /\ fields' = after_call(fields)
    /\ UNCHANGED <<script, label, pc, result, raised, arg, sane, enc, dec, logits, tk, pred, charset>>

\* an iteration that consumes nothing: return ()
ScanInvalid ==
    /\ Scanning
    /\ idx < Len(label)
    /\ scan_iteration(script, label, idx).idx = idx
    /\ op' = "label_transform"
    /\ pc' = "done"
    /\ result' = <<>>
    /\ fields' = after_call(fields)
    /\ UNCHANGED <<script, label, idx, grps, raised, arg, sane, enc, dec, logits, tk, pred, charset>>

\* the loop has ended: return grps if self.grp_sanity(label, grps) else ()
ScanReturn ==
    /\ Scanning
    /\ idx >= Len(label)
    /\ \E r \in {transform_return(script, label, grps)} :
           /\ result' = r.grps
           /\ raised' = r.exc
    /\ op' = "label_transform"
    /\ pc' = "done"
    /\ fields' = after_call(fields)
    /\ UNCHANGED <<script, label, idx, grps, arg, sane, enc, dec, logits, tk, pred, charset>>

\* grp_sanity called directly with a tuple of groups
GrpSanity ==
    /\ op = "none"
    /\ \E g \in DirectGroups(label) :
          /\ arg' = g
          /\ \E v \in {grp_sanity(script, label, g)} :
                 IF v \in {"True", "False"}
                 THEN sane' = v /\ raised' = "none"
                 ELSE sane' = "none" /\ raised' = v
    /\ op' = "grp_sanity"
    /\ pc' = "done"
    /\ fields' = after_call(fields)
    /\ UNCHANGED <<script, label, idx, grps, result, enc, dec, logits, tk, pred, charset>>

\* label_encoder(label, device) of a tokenizer that has one
LabelEncoder ==
    /\ op = "none"
    /\ script \in Codecs
    /\ \E e \in {label_encoder(script, label)} :
           /\ raised' = e.exc
           /\ enc' = IF e.exc = "none" THEN e ELSE enc
    /\ op' = "label_encoder"
    /\ pc' = "done"
    /\ fields' = after_call(fields)
    /\ UNCHANGED <<script, label, idx, grps, result, arg, sane, dec, logits, tk, pred, charset>>

\* decode(logits) on the logits that exactly reproduce the targets the
\* encoder returned
Decode ==
    /\ op = "label_encoder"
    /\ raised = "none"
    /\ \E l \in {ExactLogits(script, enc)} :
           \E t \in TopKRows(l.d, Len(d_classes(script)), topk_k(script), max_grps) :
               /\ logits' = l
               /\ tk' = t
               /\ dec' = decode(script, l, t)
    /\ op' = "decode"
    /\ fields' = after_call(fields)
    /\ UNCHANGED <<script, label, pc, idx, grps, result, raised, arg, sane, enc, pred, charset>>

\* decode(logits) called directly; it takes no label
DecodeLogits ==
    /\ op = "none"
    /\ script \in Codecs
    /\ label = <<>>
    /\ \E l \in HeadLogits(script) \cup RowLogits(script) :
           \E t \in TopKRows(l.d, Len(d_classes(script)), topk_k(script), max_grps) :
               /\ logits' = l
               /\ tk' = t
               /\ dec' = decode(script, l, t)
    /\ op' = "decode"
    /\ pc' = "done"
    /\ fields' = after_call(fields)
    /\ UNCHANGED <<script, label, idx, grps, result, raised, arg, sane, enc, pred, charset>>

\* _decode_grp called directly with the predictions of one group
DecodeGrp ==
    /\ op = "none"
    /\ script \in Codecs
    /\ label = <<>>
    /\ \E p \in GrpPreds(script) :
           /\ pred' = p
           /\ dec' = decode_grp(script, p.h, p.f, p.d_pred, p.d_max)
    /\ op' = "_decode_grp"
    /\ pc' = "done"
    /\ fields' = after_call(fields)
    /\ UNCHANGED <<script, label, idx, grps, result, raised, arg, sane, enc, logits, tk, charset>>

\* get_charset() called on the tokenizer
GetCharset ==
    /\ op = "none"
    /\ label = <<>>
    /\ charset' = get_charset(script)
    /\ op' = "get_charset"
    /\ pc' = "done"
    /\ fields' = after_call(fields)
    /\ UNCHANGED <<script, label, idx, grps, result, raised, arg, sane, enc, dec, logits, tk, pred>>

Next ==
    \/ ScanStep \/ ScanInvalid \/ ScanReturn \/ GrpSanity \/ LabelEncoder \/ Decode
    \/ DecodeLogits \/ DecodeGrp \/ GetCharset

Spec == Init /\ [][Next]_vars

\* ------------------------------------------------------------------------
\* Vocabulary of the properties
\* ------------------------------------------------------------------------
\* label_transform has returned
Transformed == op = "label_transform" /\ pc = "done"

\* label_transform has returned a non-empty tuple of groups
Accepted == Transformed /\ result # <<>>

\* the largest number of half-characters of one group
MaxHalf(s) ==
    CASE s \in {"Hindi", "Gujarati", "Bengali"} -> 2
      [] s \in {"Malayalam", "Telugu"} -> 3
      [] s = "Gurmukhi" -> 1
      [] s = "Tamil" -> 0

\* a half-character unit starts at position i of str: a consonant of the
\* half-character table and the halant (in Gurmukhi the halant and a
\* subjoined letter); Tamil has none
HalfUnitAt(s, str, i) ==
    /\ s # "Tamil"
    /\ i >= 0
    /\ i + 1 < Len(str)
    /\ IF s = "Gurmukhi"
       THEN At(str, i) = halanth(s) /\ InMap(h_c_classes(s), At(str, i + 1))
       ELSE InMap(h_c_classes(s), At(str, i)) /\ At(str, i + 1) = halanth(s)

\* position i of str holds a full character: a character of the
\* full-character table that is not the letter of a half-character unit
FullAt(s, str, i) ==
    /\ 0 <= i /\ i < Len(str)
    /\ InMap(f_c_classes(s), At(str, i))
    /\ IF s = "Gurmukhi" THEN ~HalfUnitAt(s, str, i - 1) ELSE ~HalfUnitAt(s, str, i)

FullCount(s, grp) == Cardinality({i \in 0..(Len(grp) - 1) : FullAt(s, grp, i)})

\* the diacritic symbols of the script: the single characters of its
\* diacritic table
IsDiacritic(s, c) == InMap(d_classes(s), c)

\* grp holds the same diacritic symbol at two positions
HasDuplicateDiacritic(s, grp) ==
    \E i, j \in 0..(Len(grp) - 1) :
        /\ i < j
        /\ At(grp, i) = At(grp, j)
        /\ IsDiacritic(s, At(grp, i))
        /\ ~HalfUnitAt(s, grp, i - 1) /\ ~HalfUnitAt(s, grp, j - 1)

\* ------------------------------------------------------------------------
\* C1  Round trip (Hindi, Malayalam): for a label that label_transform
\* accepts with at most max_grps groups, decode on the logits that exactly
\* reproduce the targets of label_encoder returns the concatenation of the
\* label's groups.
\* ------------------------------------------------------------------------
C1_RoundTrip ==
    (/\ op = "decode"
     /\ label_transform(script, label).grps # <<>>
     /\ Len(label_transform(script, label).grps) <= max_grps)
    => dec = Join(label_transform(script, label).grps)

\* ------------------------------------------------------------------------
\* C2  Idempotence of segmentation: when label_transform returns a
\* non-empty tuple G, label_transform of the concatenation of G returns G.
\* ------------------------------------------------------------------------
C2_Idempotent ==
    Accepted => label_transform(script, Join(result)) = [grps |-> result, exc |-> "none"]

C2_Witness ==
    /\ Accepted
    /\ Len(result) >= 2
    /\ label_transform(script, Join(result)).grps = result

\* ------------------------------------------------------------------------
\* C3  A label in which the scan forms a group that holds the same
\* diacritic symbol twice is rejected: label_transform returns () and
\* grp_sanity returns False for the groups.
\* ------------------------------------------------------------------------
C3_DuplicateDiacriticRejected ==
    (/\ Transformed
     /\ idx >= Len(label)
     /\ \E k \in 1..Len(grps) : HasDuplicateDiacritic(script, grps[k]))
    => (result = <<>> /\ grp_sanity(script, label, grps) = "False")

\* ------------------------------------------------------------------------
\* C4  A label with a run of more half-character units than the script's
\* maximum before one full character is rejected by label_transform.
\* ------------------------------------------------------------------------
\* n half-character units in a row from position i, then a full character
HalfRunAt(s, str, i, n) ==
    /\ \A k \in 0..(n - 1) : HalfUnitAt(s, str, i + 2 * k)
    /\ FullAt(s, str, i + 2 * n)

HasHalfOverflow(s, str) ==
    /\ s # "Tamil"
    /\ \E i \in 0..(Len(str) - 1) : HalfRunAt(s, str, i, MaxHalf(s) + 1)

C4_HalfOverflowRejected ==
    (Transformed /\ HasHalfOverflow(script, label)) => result = <<>>

C4_Witness ==
    /\ Transformed
    /\ script \in {"Malayalam", "Telugu"}
    /\ HasHalfOverflow(script, label)
    /\ grps # <<>>
    /\ result = <<>>

\* ------------------------------------------------------------------------
\* C5  label_transform is all-or-nothing: it returns all the groups of the
\* completed scan or (); a scan step that consumes nothing, or one group
\* that fails grp_sanity, makes the result () whatever groups came before.
\* ------------------------------------------------------------------------
C5_AllOrNothing ==
    Transformed =>
        /\ result = <<>> \/ (result = grps /\ idx >= Len(label))
        /\ idx < Len(label) => result = <<>>
        /\ (\E k \in 1..Len(grps) : grp_sanity(script, label, <<grps[k]>>) # "True")
               => result = <<>>

C5_Witness ==
    /\ Transformed
    /\ idx >= Len(label)
    /\ Len(grps) >= 2
    /\ grp_sanity(script, label, <<grps[1]>>) = "True"
    /\ grp_sanity(script, label, <<grps[Len(grps)]>>) = "False"
    /\ result = <<>>

\* ------------------------------------------------------------------------
\* C6  grp_sanity is a sound validator: it returns True only if every group
\* holds only characters of the script's tables, at most the maximum number
\* of half-characters, at most the maximum number of diacritics and none
\* twice, and exactly one full character.
\* ------------------------------------------------------------------------
MaxDiacritics(s) == IF s = "Malayalam" THEN 3 ELSE 2

KnownChar(s, c) ==
    \/ InMap(h_c_classes(s), c)
    \/ InMap(f_c_classes(s), c)
    \/ InMap(d_classes(s), c)
    \/ c = halanth(s)
    \/ (s = "Gurmukhi" /\ c = Gurmukhi_nukta)

HalfCount(s, grp) == Cardinality({i \in 0..(Len(grp) - 1) : HalfUnitAt(s, grp, i)})

DiacriticCount(s, grp) ==
    Cardinality({i \in 0..(Len(grp) - 1) :
                    IsDiacritic(s, At(grp, i)) /\ ~HalfUnitAt(s, grp, i - 1)})

WellFormed(s, grp) ==
    /\ \A i \in 0..(Len(grp) - 1) : KnownChar(s, At(grp, i))
    /\ HalfCount(s, grp) <= MaxHalf(s)
    /\ DiacriticCount(s, grp) <= MaxDiacritics(s)
    /\ ~HasDuplicateDiacritic(s, grp)
    /\ FullCount(s, grp) = 1

C6_SoundValidator ==
    (op = "grp_sanity" /\ sane = "True")
    => \A k \in 1..Len(arg) : WellFormed(script, arg[k])

\* ------------------------------------------------------------------------
\* C7  In a label that label_transform accepts, every group other than the
\* last holds exactly one full character.
\* ------------------------------------------------------------------------
C7_OneFullCharacter ==
    Accepted => \A k \in 1..(Len(result) - 1) : FullCount(script, result[k]) = 1

C7_Witness ==
    /\ Accepted
    /\ Len(result) >= 2
    /\ \E k \in 1..(Len(result) - 1) :
          HalfCount(script, result[k]) >= 1 /\ FullCount(script, result[k]) = 1

\* ------------------------------------------------------------------------
\* C8  A group that ends with a halant not followed by a consonant is
\* accepted only as the last group of a Malayalam or Telugu label.
\* ------------------------------------------------------------------------
\* the group result[k] ends with the halant, and what follows it in the
\* label (the first character of the next group) is no consonant
TrailingHalant(s, g, k) ==
    /\ g[k] # <<>>
    /\ At(g[k], Len(g[k]) - 1) = halanth(s)
    /\ k < Len(g) => ~InMap(h_c_classes(s), At(g[k + 1], 0))

C8_TrailingHalantOnlyLast ==
    Accepted =>
        \A k \in 1..Len(result) :
            TrailingHalant(script, result, k)
                => (script \in {"Malayalam", "Telugu"} /\ k = Len(result))

\* ------------------------------------------------------------------------
\* C9  Special-atomic units form singleton groups: in an accepted label a
\* Malayalam chillu or a Telugu special consonant is the whole of its group.
\* ------------------------------------------------------------------------
SpecialUnits(s) ==
    IF s = "Malayalam"
    THEN {Malayalam_chillaksharam[k] : k \in 1..Len(Malayalam_chillaksharam)}
    ELSE IF s = "Telugu"
    THEN {Telugu_special_consonants[k] : k \in 1..Len(Telugu_special_consonants)}
    ELSE {}

C9_SpecialUnitsAlone ==
    Accepted =>
        \A k \in 1..Len(result) : \A u \in SpecialUnits(script) :
            IsSubstr(u, result[k]) => result[k] = u

\* ------------------------------------------------------------------------
\* C10  Padding (Hindi, Malayalam): for a label of n < max_grps groups the
\* half- and full-character targets hold EOS at position n and PAD at every
\* later position, every diacritic row after n has its PAD bit set, and
\* label_encoder returns n.
\* ------------------------------------------------------------------------
C10_Padding ==
    LET n == Len(label_transform(script, label).grps)
    IN  (op = "label_encoder" /\ raised = "none" /\ n < max_grps) =>
            /\ enc.n = n
            /\ enc.f[n] = eos_id
            /\ \A r \in DOMAIN enc.h : enc.h[r][n] = eos_id
            /\ \A j \in (n + 1)..(max_grps - 1) :
                  /\ enc.f[j] = pad_id
                  /\ \A r \in DOMAIN enc.h : enc.h[r][j] = pad_id
                  /\ pad_id \in enc.d[j]

C10_Witness ==
    /\ op = "label_encoder"
    /\ raised = "none"
    /\ enc.n >= 1
    /\ enc.n + 1 < max_grps
    /\ enc.f[enc.n] = eos_id
    /\ enc.f[enc.n + 1] = pad_id


\* ------------------------------------------------------------------------
\* Vocabulary of the encoder claims
\* ------------------------------------------------------------------------
\* label_encoder has returned
Encoded == op = "label_encoder" /\ raised = "none"

\* what grp_class_encoder of the tokenizer gives for one group
GrpTargets(s, grp) ==
    IF s = "Hindi" THEN Hindi_grp_class_encoder(grp) ELSE Malayalam_grp_class_encoder(grp)

\* position j of the targets holds the encoding of the group grp
HoldsGroup(j, grp) ==
    /\ enc.f[j] = GrpTargets(script, grp).f
    /\ enc.d[j] = GrpTargets(script, grp).d
    /\ \A r \in DOMAIN enc.h : enc.h[r][j] = GrpTargets(script, grp).h[r]

\* ------------------------------------------------------------------------
\* C11  Truncation (Hindi, Malayalam): for a label of n >= max_grps groups
\* label_encoder encodes exactly the first max_grps groups in order, no
\* position of a head holds the EOS index, no diacritic row has the EOS bit,
\* and the count returned is max_grps; the count returned never exceeds
\* max_grps.
\* ------------------------------------------------------------------------
C11_Truncation ==
    LET all == label_transform(script, label).grps
    IN  /\ Encoded => enc.n <= max_grps
        /\ (Encoded /\ Len(all) >= max_grps) =>
              /\ enc.n = max_grps
              /\ \A j \in 0..(max_grps - 1) :
                    /\ HoldsGroup(j, all[j + 1])
                    /\ enc.f[j] # eos_id
                    /\ \A r \in DOMAIN enc.h : enc.h[r][j] # eos_id
                    /\ eos_id \notin enc.d[j]

\* a label of more than max_grps groups, not all alike, has been encoded
C11_Witness ==
    /\ Encoded
    /\ Len(label_transform(script, label).grps) > max_grps
    /\ enc.n = max_grps
    /\ enc.f[0] # enc.f[max_grps - 1]

\* ------------------------------------------------------------------------
\* C12  A rejected label is never partially encoded: when label_transform
\* returns () for a non-empty label, label_encoder returns the encoding of
\* the empty label: EOS at position 0 of every head, PAD at every later
\* position, group count 0.
\* ------------------------------------------------------------------------
C12_RejectedNotEncoded ==
    (Encoded /\ label # <<>> /\ label_transform(script, label).grps = <<>>) =>
        /\ enc = label_encoder(script, <<>>)
        /\ enc.n = 0
        /\ enc.f[0] = eos_id
        /\ enc.d[0] = {eos_id, pad_id}
        /\ \A r \in DOMAIN enc.h : enc.h[r][0] = eos_id
        /\ \A j \in 1..(max_grps - 1) :
              /\ enc.f[j] = pad_id
              /\ enc.d[j] = {pad_id}
              /\ \A r \in DOMAIN enc.h : enc.h[r][j] = pad_id

\* label_encoder has returned for a rejected label that holds characters
\* of the vocabulary
C12_Witness ==
    /\ Encoded
    /\ Len(label) >= 2
    /\ \E i \in 0..(Len(label) - 1) : InMap(f_c_classes(script), At(label, i))
    /\ label_transform(script, label).grps = <<>>
    /\ enc.n = 0
    /\ enc.f[0] = eos_id

\* label_transform of a tokenizer that has label_encoder raises no exception
NoTransformException ==
    script \in Codecs => label_transform(script, label).exc = "none"

\* ------------------------------------------------------------------------
\* C13  Half-character ranks (Hindi 2, Malayalam 3): for an encoded group
\* with k half-characters the half-character next to the full character is
\* in rank 1, the one before it in rank 2, the one before that in rank 3,
\* and every rank above k holds the BLANK index.
\* ------------------------------------------------------------------------
\* the positions of grp where a half-character unit starts
HalfPositions(s, grp) == {i \in 0..(Len(grp) - 1) : HalfUnitAt(s, grp, i)}

\* the class index rank r must hold for grp
RankTarget(s, grp, r) ==
    LET S == HalfPositions(s, grp)
        k == Cardinality(S)
    IN  IF r <= k THEN RevMap(h_c_classes(s), At(grp, Nth(S, k - r)))
        ELSE blank_id

C13_HalfRanks ==
    LET all == label_transform(script, label).grps
    IN  Encoded =>
            \A j \in 0..(enc.n - 1) : \A r \in DOMAIN enc.h :
                enc.h[r][j] = RankTarget(script, all[j + 1], r)

\* a group of two different half-characters has been encoded
C13_Witness ==
    /\ Encoded
    /\ enc.n = 1
    /\ Cardinality(HalfPositions(script, label)) = 2
    /\ enc.h[1][0] # enc.h[2][0]
    /\ enc.h[1][0] = RevMap(h_c_classes(script), At(label, 2))
    /\ enc.h[2][0] = RevMap(h_c_classes(script), At(label, 0))

\* ------------------------------------------------------------------------
\* C14  Diacritic rows (Hindi, Malayalam): the diacritic row of every real
\* group of an encoded label has a bit exactly for each distinct diacritic
\* of the group, a two-code-point sign counting as the one class it stands
\* for, and no other bit; its EOS and PAD bits are not set.
\* ------------------------------------------------------------------------
\* a two-code-point diacritic starts at position i of grp: the doubled sign
\* e that stands for the sign ai, or the sign u with the chandrakala
SignPairAt(s, grp, i) ==
    /\ s = "Malayalam"
    /\ 0 <= i /\ i + 1 < Len(grp)
    /\ \/ At(grp, i) = Malayalam_e /\ At(grp, i + 1) = Malayalam_e
       \/ At(grp, i) = Malayalam_u /\ At(grp, i + 1) = Malayalam_halanth

\* the classes of the diacritics of grp
DiacriticBits(s, grp) ==
    {RevMap(d_classes(s), IF At(grp, i) = Malayalam_e THEN Malayalam_ai
                          ELSE Slice(grp, i, i + 2)) :
        i \in {p \in 0..(Len(grp) - 1) : SignPairAt(s, grp, p)}}
    \cup {RevMap(d_classes(s), At(grp, i)) :
        i \in {p \in 0..(Len(grp) - 1) :
                  /\ IsDiacritic(s, At(grp, p))
                  /\ ~SignPairAt(s, grp, p)
                  /\ ~SignPairAt(s, grp, p - 1)}}

C14_DiacriticRows ==
    LET all == label_transform(script, label).grps
    IN  Encoded =>
            \A j \in 0..(enc.n - 1) :
                /\ enc.d[j] = DiacriticBits(script, all[j + 1])
                /\ eos_id \notin enc.d[j]
                /\ pad_id \notin enc.d[j]

\* a group with two diacritics has been encoded, and so has a group with a
\* two-code-point sign
C14_Witness ==
    /\ Encoded
    /\ enc.n = 1
    /\ Cardinality(enc.d[0]) = 2
    /\ Cardinality({p \in 0..(Len(label) - 1) : IsDiacritic(script, At(label, p))}) = 2

C14_WitnessPair ==
    /\ Encoded
    /\ enc.n = 1
    /\ \E p \in 0..(Len(label) - 1) : SignPairAt(script, label, p)
    /\ Cardinality(enc.d[0]) = 1

\* ------------------------------------------------------------------------
\* C15  The failure paths of the encoder are unreachable for validated
\* input (Hindi, Malayalam): when label_transform returns a non-empty tuple
\* for the label, grp_class_encoder raises no assertion error and no
\* exception on any of its groups.
\* ------------------------------------------------------------------------
C15_EncoderNeverFails ==
    (op = "label_encoder" /\ label_transform(script, label).grps # <<>>) =>
        raised = "none"

\* a group with two half-characters has been encoded, and so has a group
\* with two diacritics
C15_Witness ==
    /\ Encoded
    /\ enc.n = 1
    /\ enc.h[2][0] # blank_id

C15_WitnessDiacritics ==
    /\ Encoded
    /\ enc.n = 1
    /\ Cardinality(enc.d[0]) = 2
    /\ enc.f[0] # blank_id

\* ------------------------------------------------------------------------
\* Vocabulary of the claims about decode
\* ------------------------------------------------------------------------
\* decode has returned for the logits of the state
Decoded == op = "decode"

\* the classes of position j whose activation is above the threshold
Above(j) == d_bin_mask(logits.d[j])

\* the classes decode selects for position j: the indices torch.topk
\* returns with a value that is not 0
Selected(j) == {tk[j].pred[i] : i \in {e \in DOMAIN tk[j].pred : tk[j].max[e] # 0}}

\* ------------------------------------------------------------------------
\* C16  Diacritic selection in decode (Hindi cap 2, Malayalam cap 3): when
\* more classes of one position have an activation above the threshold
\* than the cap, the classes selected are the cap-many with the highest
\* activation; when at most cap-many are above the threshold, exactly
\* those are selected.
\* ------------------------------------------------------------------------
C16_TopKByProbability ==
    Decoded =>
        \A j \in 0..(max_grps - 1) :
            IF Cardinality(Above(j)) <= topk_k(script)
            THEN Selected(j) = Above(j)
            ELSE /\ Cardinality(Selected(j)) = topk_k(script)
                 /\ Selected(j) \subseteq Above(j)
                 /\ \A c \in Selected(j) : \A e \in Above(j) \ Selected(j) :
                        logits.d[j][c] >= logits.d[j][e]

\* _decode_grp has returned for the predictions of the state
GrpDecoded == op = "_decode_grp"

\* the diacritic classes _decode_grp is given as selected
GrpSelected == {pred.d_pred[i] : i \in {e \in DOMAIN pred.d_pred : pred.d_max[e] # 0}}

\* ------------------------------------------------------------------------
\* C17  The decoded order of a group's diacritics does not depend on the
\* prediction order: for any set of selected diacritics of one group,
\* _decode_grp returns the same text for every order in which the selected
\* classes are passed in d_pred.
\* ------------------------------------------------------------------------
C17_OrderIndependent ==
    GrpDecoded =>
        \A t \in TopK(GrpSelected, Len(d_classes(script)), topk_k(script)) :
            decode_grp(script, pred.h, pred.f, t.pred, t.max) = dec

\* the text of the diacritics torch.topk outcome t selects, in its order
DiacriticText(s, t) ==
    Join([i \in 1..topk_k(s) |->
             IF t.max[i - 1] # 0 THEN d_classes(s)[t.pred[i - 1] + 1] ELSE <<>>])

\* the text of the half-characters and the full character of the group:
\* what _decode_grp returns when no diacritic is selected
GrpStem == decode_grp(script, pred.h, pred.f, pred.d_pred, [i \in DOMAIN pred.d_max |-> 0])

\* the diacritics selected are signs of the script, not [E] or [P]
SignsSelected == \A c \in GrpSelected : c \notin {eos_id, pad_id}

\* ------------------------------------------------------------------------
\* C18  No selected diacritic is lost in decoding: every diacritic class
\* selected for a group appears exactly once in the text _decode_grp
\* returns, after the full character, whatever the combination of selected
\* classes is.
\* ------------------------------------------------------------------------
C18_NoDiacriticLost ==
    (GrpDecoded /\ SignsSelected) =>
        \E t \in TopK(GrpSelected, Len(d_classes(script)), topk_k(script)) :
            dec = GrpStem \o DiacriticText(script, t)

\* the half and full heads of the group predict letters, the half heads
\* possibly [B]: no head predicts [E] or [P]
LettersPredicted ==
    /\ \A r \in DOMAIN pred.h : pred.h[r] \notin {eos_id, pad_id}
    /\ pred.f \notin {eos_id, pad_id}
    /\ f_c_classes(script)[pred.f + 1] # BLANK

\* the text of the half-character of rank r: the letter and the halant,
\* nothing for [B]
HalfText(r) ==
    IF pred.h[r] = blank_id THEN <<>>
    ELSE h_c_classes(script)[pred.h[r] + 1] \o halanth(script)

\* the text after the half-characters: the full character, then diacritics
\* among the selected ones, each at most once
FullAndDiacritics ==
    {f_c_classes(script)[pred.f + 1] \o DiacriticText(script, t) :
        t \in UNION {TopK(m, Len(d_classes(script)), topk_k(script)) :
                        m \in SUBSET GrpSelected}}

C19_WitnessThree ==
    /\ GrpDecoded
    /\ LettersPredicted
    /\ Ranks(script) = 3
    /\ pred.h[1] = 3
    /\ pred.h[2] = 4
    /\ pred.h[3] = 3

\* the prediction of the half head of rank r and of the full head at
\* position j
HalfPred(r, j) == argmax(logits.h[r][j])
FullPred(j) == argmax(logits.f[j])

\* a full- or half-character head predicts EOS at position j
EosPredicted(j) ==
    \/ FullPred(j) = eos_id
    \/ \E r \in 1..Ranks(script) : HalfPred(r, j) = eos_id

\* the first position where a head predicts EOS, max_grps when none does
FirstEos ==
    Nth({j \in 0..(max_grps - 1) : EosPredicted(j)} \cup {max_grps}, 0)

\* the text _decode_grp returns for position j
PositionText(j) ==
    decode_grp(script, [r \in 1..Ranks(script) |-> HalfPred(r, j)], FullPred(j),
               tk[j].pred, tk[j].max)

\* ------------------------------------------------------------------------
\* C20  decode stops each batch item at the first group position where a
\* head predicts EOS: the returned text holds only the text of positions
\* before the first position whose full-character or half-character head
\* predicts the EOS class, and it never contains [E], [P] or [B].
\* ------------------------------------------------------------------------
C20_StopsAtEos ==
    Decoded =>
        /\ \E n \in 0..FirstEos : dec = Join([j \in 1..n |-> PositionText(j - 1)])
        /\ ~IsSubstr(EOS, dec)
        /\ ~IsSubstr(PAD, dec)
        /\ ~IsSubstr(BLANK, dec)

\* ------------------------------------------------------------------------
\* C21  For every script, label_transform applied to the empty string
\* returns the empty group sequence without reporting a violation (the
\* scan loop is never entered and the return is the final one, with
\* grp_sanity True), and grp_sanity applied to the empty group sequence
\* returns True.
\* ------------------------------------------------------------------------
C21_EmptyLabel ==
    /\ (Transformed /\ label = <<>>) =>
           /\ result = <<>>
           /\ raised = "none"
           /\ idx >= Len(label)
           /\ grps = <<>>
           /\ grp_sanity(script, label, grps) = "True"
    /\ (op = "grp_sanity" /\ arg = <<>>) => (sane = "True" /\ raised = "none")

\* label_transform has returned for the empty label
C21_Witness == Transformed /\ label = <<>> /\ result = <<>>

\* grp_sanity has returned for the empty tuple of groups
C21_WitnessSanity == op = "grp_sanity" /\ arg = <<>> /\ sane = "True"

C22_EveryStep == [][fields' = fields]_vars

\* ------------------------------------------------------------------------
\* C23  label_transform terminates on every finite label in every script:
\* an iteration of the scan loop starts with the index inside the label
\* and either strictly increases the index or returns, the index never
\* moves backwards and never passes the end of the label, and no more
\* groups are built than characters are consumed; so the loop ends after
\* at most len(label) iterations.
\* ------------------------------------------------------------------------
C23_Terminates ==
    /\ [][pc' = "run" => (idx < Len(label) /\ idx' > idx)]_vars
    /\ [][idx' >= idx]_vars
    /\ [](Len(grps) <= idx /\ idx <= Len(label))

\* label_transform has returned after three iterations of the loop
C23_Witness == Transformed /\ Len(result) = 3 /\ idx = Len(label)

\* a halant with a subjoined consonant (one of the four letters of
\* subjoined_characters) stands at position i of l
SubjoinedPairAt(l, i) ==
    /\ 0 <= i /\ i + 1 < Len(l)
    /\ At(l, i) = Gurmukhi_halanth
    /\ InList(NFKD_each(Gurmukhi_subjoined_characters), At(l, i + 1))

\* g is one full character, optionally the nukta, at most one halant with
\* a subjoined consonant, then at most two distinct diacritics
GurmukhiShape(g) ==
    \E a \in {0, 1}, b \in {0, 2}, k \in 0..2 :
        /\ Len(g) = 1 + a + b + k
        /\ InMap(Gurmukhi_f_c_classes, At(g, 0))
        /\ a = 1 => At(g, 1) = Gurmukhi_nukta
        /\ b = 2 => SubjoinedPairAt(g, 1 + a)
        /\ \A j \in 0..(k - 1) : IsDiacritic("Gurmukhi", At(g, 1 + a + b + j))
        /\ k = 2 => At(g, 1 + a + b) # At(g, 2 + a + b)

\* the label starts with a halant+subjoined pair, or has two such pairs in
\* a row, or has such a pair right after a diacritic
MisplacedPair(l) ==
    \/ SubjoinedPairAt(l, 0)
    \/ \E i \in 0..(Len(l) - 1) : SubjoinedPairAt(l, i) /\ SubjoinedPairAt(l, i + 2)
    \/ \E i \in 0..(Len(l) - 1) :
           IsDiacritic("Gurmukhi", At(l, i)) /\ SubjoinedPairAt(l, i + 1)

\* ------------------------------------------------------------------------
\* C24  Gurmukhi directionality: in every label accepted by
\* GurmukhiTokenizer.label_transform each group is one full character
\* (optionally followed by the nukta), then at most one halant+subjoined
\* pair, then at most two distinct diacritics; a label that starts with a
\* halant+subjoined pair, or has two such pairs in a row, or has such a
\* pair after a diacritic, is rejected.
\* ------------------------------------------------------------------------
C24_GurmukhiShape ==
    (Transformed /\ script = "Gurmukhi") =>
        /\ \A k \in 1..Len(result) : GurmukhiShape(result[k])
        /\ MisplacedPair(label) => result = <<>>

\* a label of a group with nukta, subjoined pair and diacritic has been
\* accepted; a label with a pair after a diacritic has been rejected
C24_Witness ==
    /\ Accepted
    /\ script = "Gurmukhi"
    /\ \E k \in 1..Len(result) :
           Len(result[k]) >= 5 /\ At(result[k], 1) = Gurmukhi_nukta
                               /\ SubjoinedPairAt(result[k], 2)

C24_WitnessRejected ==
    /\ Transformed
    /\ script = "Gurmukhi"
    /\ result = <<>>
    /\ ~SubjoinedPairAt(label, 0)
    /\ \E i \in 0..(Len(label) - 1) :
           IsDiacritic("Gurmukhi", At(label, i)) /\ SubjoinedPairAt(label, i + 1)

\* the pairs of signs MalayalamTokenizer.label_transform consumes together
\* after a full character
SplitPairs ==
    {<<3398, 3398>>, <<3398, 3415>>, <<3398, 3390>>, <<3399, 3390>>,
     <<3390, 3398>>, <<3390, 3399>>, <<3415, 3398>>}

\* the positions where a group of the tuple g ends, the groups laid end to
\* end
GroupEnds(g) == {Len(Join(SubSeq(g, 1, k))) : k \in 1..Len(g)}

\* a consonant stands at position i of l with one of the pairs after it
PairAfterConsonant(l, i) ==
    /\ 0 <= i /\ i + 2 < Len(l)
    /\ InList(NFKD_each(Malayalam_vyanjan), At(l, i))
    /\ Slice(l, i + 1, i + 3) \in SplitPairs

\* ------------------------------------------------------------------------
\* C25  Malayalam split vowel signs: every two-codepoint pair that
\* label_transform consumes together after a full character stays in that
\* character's group, and a label made of a consonant followed by such a
\* pair is accepted with a single group.
\* ------------------------------------------------------------------------
C25_SplitVowelSigns ==
    (Transformed /\ script = "Malayalam") =>
        /\ (Len(label) = 3 /\ PairAfterConsonant(label, 0)) => result = <<label>>
        /\ \A i \in 0..(Len(label) - 1) :
               (result # <<>> /\ PairAfterConsonant(label, i)) =>
                   (i + 1 \notin GroupEnds(result) /\ i + 2 \notin GroupEnds(result))

\* ------------------------------------------------------------------------
\* C26  Groups are contiguous substrings covering the label: for every
\* script and every label for which label_transform returns a non-empty
\* sequence, every group is a non-empty string and the concatenation of
\* the groups in order equals the label character for character.
\* ------------------------------------------------------------------------
C26_GroupsCoverLabel ==
    Accepted =>
        /\ \A k \in 1..Len(result) : result[k] # <<>>
        /\ Join(result) = label

\* ------------------------------------------------------------------------
\* C27  Diacritic rows (Hindi, Malayalam): for a label of n < max_grps groups
\* the diacritic row at position n has the EOS bit set and the PAD bit clear,
\* and the PAD bit is set in exactly the rows after position n.
\* ------------------------------------------------------------------------
C27_PadBitOnlyInPaddingRows ==
    (op = "label_encoder" /\ raised = "none" /\ enc.n < max_grps) =>
        /\ eos_id \in enc.d[enc.n]
        /\ pad_id \notin enc.d[enc.n]
        /\ \A j \in 0..(max_grps - 1) : (pad_id \in enc.d[j]) <=> (j > enc.n)

\* a full character followed by the sign U+0D41 and the halant
LegacyUGroup(g) == Len(g) = 3 /\ g[2] = 3393 /\ g[3] = Malayalam_halanth[1]

\* the label splits at i into a part accepted with a legacy group last and a
\* part accepted on its own
LegacySplit(l, i) ==
    LET p == label_transform("Malayalam", Slice(l, 0, i)).grps
        q == label_transform("Malayalam", Slice(l, i, Len(l))).grps
    IN  /\ p # <<>>
        /\ LegacyUGroup(p[Len(p)])
        /\ q # <<>>

\* ------------------------------------------------------------------------
\* C28  Malayalam legacy sign: a group of a full character, U+0D41 and the
\* halant is accepted wherever it stands; a label made of a part accepted
\* with such a group last and a part accepted on its own is accepted too.
\* ------------------------------------------------------------------------
C28_LegacySignAnywhere ==
    (Transformed /\ script = "Malayalam") =>
        \A i \in 1..(Len(label) - 1) : LegacySplit(label, i) => result # <<>>

\* the text a half-character slot of rank r adds: nothing for [B] and [P],
\* else the letter and the halant
SlotText(r) ==
    IF pred.h[r] \in {blank_id, pad_id} THEN <<>>
    ELSE h_c_classes(script)[pred.h[r] + 1] \o halanth(script)

\* some half-character slot of the group predicts [B] or [P]
EmptySlot == \E r \in DOMAIN pred.h : pred.h[r] \in {blank_id, pad_id}

\* the text after the half-characters, with the sentinel names removed
FullAndDiacriticsText ==
    {Remove(Remove(rest, BLANK), PAD) : rest \in FullAndDiacritics}

\* the half-character text when only the slots of the ranks in keep are
\* written, highest rank first
SlotsText(keep) ==
    Join([r \in 1..Ranks(script) |->
            IF (Ranks(script) + 1 - r) \in keep
            THEN SlotText(Ranks(script) + 1 - r) ELSE <<>>])

\* ------------------------------------------------------------------------
\* C29  In _decode_grp a half-character slot predicted [B] or [P] adds
\* nothing to the group, neither a letter nor a halant, whatever the other
\* ranks predict: the text holds letters-with-halant of slots that predict
\* a letter only, then the full character and diacritics.
\* ------------------------------------------------------------------------
C29_EmptySlotAddsNothing ==
    (GrpDecoded /\ EmptySlot) =>
        \E keep \in SUBSET (1..Ranks(script)) :
            \E rest \in FullAndDiacriticsText :
                dec = SlotsText(keep) \o rest

\* the class lists of the heads the tokenizer has
ClassLists ==
    {c \in {fields.h_c_classes, fields.f_c_classes, fields.d_classes} : c # <<>>}

\* the list names no symbol twice
NoDuplicates(c) == \A i, j \in 1..Len(c) : c[i] = c[j] => i = j

\* ------------------------------------------------------------------------
\* C30  Class indices are positional and unambiguous in every script: no
\* class list names a symbol twice, the symbol-to-index map is the inverse
\* of the index-to-symbol map (rev_map[map[k]] = k for every index k), and
\* [E] is class 0 and [P] class 1.
\* ------------------------------------------------------------------------
C30_ClassMapsInverse ==
    \A c \in ClassLists :
        /\ NoDuplicates(c)
        /\ \A k \in 0..(Len(c) - 1) : RevMap(c, c[k + 1]) = k
        /\ c[eos_id + 1] = EOS
        /\ c[pad_id + 1] = PAD
=============================================================================
